---------------------------- MODULE Spec2Model ----------------------------
(***************************************************************************)
(* xmlcv: the dynamic element dispatch engine (ElementProcessor), the      *)
(* default processor library and the document assembly of                  *)
(* XMLToHTMLConverter.                                                     *)
(*                                                                         *)
(* Strings are sequences of one-character strings, so that substring       *)
(* tests, strip(), lower() and html.escape() are computed as Python        *)
(* computes them.  Markup is a sequence of tokens: every literal fragment  *)
(* of an f-string is one token and every interpolated string contributes   *)
(* its characters.                                                         *)
(***************************************************************************)
EXTENDS Integers, Sequences, FiniteSets, TLC

VARIABLES
    config,         \* XMLToHTMLConverter.config (ConverterConfig)
    processors,     \* ElementProcessor.processors: tag -> processor
    element_stats,  \* ElementProcessor.element_stats: tag -> visit count
    calls,          \* history: the register_processor calls, in order
    tree,           \* the parsed document: <<>> before ET.parse, else <<root>>
    last,           \* the last call of the engine: its arguments and its value
    pc,             \* convert_file: the step of the title inference
    title_text      \* convert_file: title_text (<<>> is None)

vars == <<config, processors, element_stats, calls, tree, last, pc, title_text>>

----------------------------------------------------------------------------
(* Python str operations on character sequences *)

UpperCase == <<"A","B","C","D","E","F","G","H","I","J","K","L","M",
               "N","O","P","Q","R","S","T","U","V","W","X","Y","Z">>
LowerCase == <<"a","b","c","d","e","f","g","h","i","j","k","l","m",
               "n","o","p","q","r","s","t","u","v","w","x","y","z">>

NBSP == "U+00A0"

\* str.isspace() for one character
IsSpace(c) == c \in {" ", "\t", "\n", "\r", NBSP}

IsUpper(c) == \E i \in 1..Len(UpperCase) : UpperCase[i] = c
IsLower(c) == \E i \in 1..Len(LowerCase) : LowerCase[i] = c
IsCased(c) == IsUpper(c) \/ IsLower(c)

LowerChar(c) ==
    IF IsUpper(c) THEN LowerCase[CHOOSE i \in 1..Len(UpperCase) : UpperCase[i] = c]
    ELSE c
UpperChar(c) ==
    IF IsLower(c) THEN UpperCase[CHOOSE i \in 1..Len(LowerCase) : LowerCase[i] = c]
    ELSE c

\* str.lower()
lower(s) == [i \in 1..Len(s) |-> LowerChar(s[i])]

\* str.title(): a cased character is upper-cased at the start of a word
\* (after an uncased character) and lower-cased inside it
title(s) ==
    [i \in 1..Len(s) |->
        IF i > 1 /\ IsCased(s[i-1]) THEN LowerChar(s[i]) ELSE UpperChar(s[i])]

\* str.replace(old, new) for a one-character old
replace(s, old, new) == [i \in 1..Len(s) |-> IF s[i] = old THEN new ELSE s[i]]

\* str.strip()
strip(s) ==
    LET keep == {i \in 1..Len(s) : ~IsSpace(s[i])}
    IN  IF keep = {} THEN <<>>
        ELSE LET lo == CHOOSE i \in keep : \A j \in keep : i <= j
                 hi == CHOOSE i \in keep : \A j \in keep : j <= i
             IN  SubSeq(s, lo, hi)

\* sub in s
contains(s, sub) ==
    \E i \in 0..(Len(s) - Len(sub)) : SubSeq(s, i + 1, i + Len(sub)) = sub

\* F applied to the value of v: v is evaluated once, before F (Python
\* evaluates an argument once and passes the object)
Let1(v, F(_)) == CHOOSE out \in {F(x) : x \in {v}} : TRUE

\* the concatenation of a sequence of sequences: ''.join(parts)
RECURSIVE concat_from(_, _)
concat_from(parts, i) ==
    IF i > Len(parts) THEN <<>> ELSE parts[i] \o concat_from(parts, i + 1)
concat(parts) == Let1(parts, LAMBDA ps : concat_from(ps, 1))

\* sep.join(parts)
RECURSIVE join_from(_, _, _)
join_from(sep, parts, i) ==
    IF i > Len(parts) THEN <<>>
    ELSE IF i = Len(parts) THEN parts[i]
    ELSE parts[i] \o sep \o join_from(sep, parts, i + 1)
join(sep, parts) == Let1(parts, LAMBDA ps : join_from(sep, ps, 1))

\* html.escape(text) (quote=True)
EscapeChar(c) ==
    CASE c = "&"  -> "&amp;"
      [] c = "<"  -> "&lt;"
      [] c = ">"  -> "&gt;"
      [] c = "\"" -> "&quot;"
      [] c = "'"  -> "&#x27;"
      [] OTHER    -> c

escape_html(text) == [i \in 1..Len(text) |-> EscapeChar(text[i])]

----------------------------------------------------------------------------
(* xml.etree.ElementTree elements.  An element is a record               *)
(*   [id, tag, attrib, text, tail, kids]                                 *)
(* id is the object's identity (two elements with equal content are      *)
(* still two objects), attrib the (name, value) pairs in document order, *)
(* text/tail are <<>> for None, kids the children in document order.     *)

Elem(tag, attrib, text, kids, tail) ==
    [id |-> 0, tag |-> tag, attrib |-> attrib, text |-> text, tail |-> tail,
     kids |-> kids]

\* an element without attributes and tail
Node(tag, text, kids) == Elem(tag, <<>>, text, kids, <<>>)

RECURSIVE Size(_)
Size(e) ==
    LET RECURSIVE sum(_)
        sum(ks) == IF ks = <<>> THEN 0 ELSE Size(Head(ks)) + sum(Tail(ks))
    IN  1 + sum(e.kids)

\* ET.parse: every node is a fresh object; ids number the nodes in
\* document order starting at first
RECURSIVE Number(_, _)
Number(e, first) ==
    LET RECURSIVE kidsFrom(_, _)
        kidsFrom(ks, n) ==
            IF ks = <<>> THEN <<>>
            ELSE <<Number(Head(ks), n)>> \o kidsFrom(Tail(ks), n + Size(Head(ks)))
    IN  [e EXCEPT !.id = first, !.kids = kidsFrom(e.kids, first + 1)]

\* the tree without the element of that identity
RECURSIVE without(_, _)
without(e, id) ==
    LET keep == SelectSeq(e.kids, LAMBDA k : k.id # id)
    IN  [e EXCEPT !.kids = [i \in 1..Len(keep) |-> without(keep[i], id)]]

\* append as a move: the child leaves its former parent
et_append_moves(root, child_id) == without(root, child_id)

\* ET.Element(...).append(child), seen from the tree of child: the new
\* parent's list gets the child, the former parent keeps it
et_append(root, child_id) == root

\* the tree after the appends of a call
RECURSIVE after_appends(_, _)
after_appends(root, appended) ==
    IF appended = <<>> THEN root
    ELSE after_appends(et_append(root, Head(appended)), Tail(appended))

\* Element.iter(): the element and its descendants in document order
RECURSIVE iter(_)
iter(e) == <<e>> \o concat([i \in 1..Len(e.kids) |-> iter(e.kids[i])])

\* Element.findall('.//*'): the descendants in document order
descendants(e) == Tail(iter(e))

\* Element.findall(tag): the direct children with that (raw) tag
findall(e, tag) == SelectSeq(e.kids, LAMBDA k : k.tag = tag)

\* Element.findall('*')
findall_star(e) == e.kids

\* Element.findall('a/b')
findall_path(e, a, b) ==
    concat([i \in 1..Len(findall(e, a)) |-> findall(findall(e, a)[i], b)])

\* Element.findall('.//tag')
findall_desc(e, tag) == SelectSeq(descendants(e), LAMBDA k : k.tag = tag)

\* Element.findall('.//*[tag]'): the descendants that have a child tag
findall_desc_with_child(e, tag) ==
    SelectSeq(descendants(e), LAMBDA k : findall(k, tag) # <<>>)

\* Element.find(...): the first match, <<>> for None, else <<match>>
first(matches) == IF matches = <<>> THEN <<>> ELSE <<matches[1]>>
find(e, tag) == first(findall(e, tag))
find_desc(e, tag) == first(findall_desc(e, tag))

\* Element.get(name, default)
get(e, name, default) ==
    LET hits == SelectSeq(e.attrib, LAMBDA kv : kv[1] = name)
    IN  IF hits = <<>> THEN default ELSE hits[1][2]

\* get_text(element) for an element that is not None
get_text_of(element) ==
    LET own == IF element.text # <<>> THEN <<strip(element.text)>> ELSE <<>>
        of(child) ==
            (IF child.text # <<>> THEN <<strip(child.text)>> ELSE <<>>)
            \o (IF child.tail # <<>> THEN <<strip(child.tail)>> ELSE <<>>)
        text_parts ==
            own \o concat([i \in 1..Len(element.kids) |-> of(element.kids[i])])
    IN  join(<<" ">>, text_parts)

\* get_text(element): element is <<>> (None) or <<e>>
get_text(element) ==
    IF element = <<>> THEN <<>> ELSE get_text_of(element[1])

\* ElementProcessor._clean_tag
clean_tag(tag) ==
    IF config.strip_namespace /\ contains(tag, <<"}">>)
    THEN \* tag.split('}')[1]
         LET cuts == {i \in 1..Len(tag) : tag[i] = "}"}
             c1 == CHOOSE i \in cuts : \A j \in cuts : i <= j
             after == {i \in cuts : i > c1}
             c2 == IF after = {} THEN Len(tag) + 1
                   ELSE CHOOSE i \in after : \A j \in after : i <= j
         IN  SubSeq(tag, c1 + 1, c2 - 1)
    ELSE tag

----------------------------------------------------------------------------
(* What a call returns: the markup, or an exception, and its effects:    *)
(* the elements process_element counted on the way (log: <<tag, id>> per *)
(* dispatch) and the elements of the tree it appended to a new parent    *)
(* (appended: their ids), and the elements that were handed to the       *)
(* processor the registry resolved for their tag (handed: <<tag, id>>).  *)

Ok(html) ==
    [raised |-> FALSE, html |-> html, log |-> <<>>, appended |-> <<>>, handed |-> <<>>]
Raise ==
    [raised |-> TRUE, html |-> <<>>, log |-> <<>>, appended |-> <<>>, handed |-> <<>>]

\* b evaluated after a: an exception in a ends the evaluation
Then(a, b) ==
    LET both(p) ==
            IF p[1].raised THEN p[1]
            ELSE [raised |-> p[2].raised,
                  html |-> IF p[2].raised THEN <<>> ELSE p[1].html \o p[2].html,
                  log |-> p[1].log \o p[2].log,
                  appended |-> p[1].appended \o p[2].appended,
                  handed |-> p[1].handed \o p[2].handed]
    IN  Let1(<<a, b>>, both)

\* the results of a sequence of calls, appended in order
RECURSIVE chain_from(_, _)
chain_from(rs, i) ==
    IF i > Len(rs) THEN Ok(<<>>) ELSE Then(rs[i], chain_from(rs, i + 1))
Chain(rs) == Let1(rs, LAMBDA v : chain_from(v, 1))

\* the context argument: None, {} or {'processor': self.processor}
CtxNone == "None"
CtxEmpty == "{}"
CtxProcessor == "{'processor': self.processor}"
Contexts == {CtxNone, CtxEmpty, CtxProcessor}

\* context.get('processor') if context else None
context_processor(context) == context = CtxProcessor

----------------------------------------------------------------------------
(* ElementProcessor *)

RECURSIVE Invoke(_, _, _)
RECURSIVE process_children(_, _)
RECURSIVE process_element(_, _)

\* get_processor without the fallback: dict.get, None for a missing key
get_processor_no_fallback(element_name) ==
    IF element_name \in DOMAIN processors THEN processors[element_name]
    ELSE "None"

\* ElementProcessor.get_processor
get_processor(element_name) ==
    IF element_name \in DOMAIN processors THEN processors[element_name]
    ELSE "_default_processor"

\* register_processor as dict.setdefault: the first registration is kept
register_processor_setdefault(registry, element_name, processor) ==
    IF element_name \in DOMAIN registry THEN registry
    ELSE [t \in DOMAIN registry \cup {element_name} |->
            IF t = element_name THEN processor ELSE registry[t]]

\* ElementProcessor.register_processor: the registry after the call
register_processor(registry, element_name, processor) ==
    [t \in DOMAIN registry \cup {element_name} |->
        IF t = element_name THEN processor ELSE registry[t]]

\* ElementProcessor._process_table_like
_process_table_like(element) ==
    LET or(a, b) == IF a # <<>> THEN a ELSE b
        rows == or(findall_desc_with_child(element, <<"R","o","w">>), findall_star(element))
        cols(row) == or(findall_desc_with_child(row, <<"C","o","l","u","m","n">>), findall_star(row))
        td(col) == <<"<td>">> \o escape_html(get_text(<<col>>)) \o <<"</td>">>
        tr(row) ==
            <<"<tr>">> \o concat([j \in 1..Len(cols(row)) |-> td(cols(row)[j])])
            \o <<"</tr>">>
    IN  Ok(<<"<table class=\"table\">">>
           \o concat([i \in 1..Len(rows) |-> tr(rows[i])])
           \o <<"</table>">>)

\* the rules with Item/List tested before Title/Caption
default_rule_item_first(tag) ==
    IF contains(tag, <<"I","t","e","m">>) \/ contains(tag, <<"L","i","s","t">>) THEN 3
    ELSE IF contains(tag, <<"T","i","t","l","e">>) \/ contains(tag, <<"C","a","p","t","i","o","n">>) THEN 1
    ELSE IF contains(tag, <<"S","e","n","t","e","n","c","e">>) \/ contains(tag, <<"T","e","x","t">>) THEN 2
    ELSE IF contains(tag, <<"T","a","b","l","e">>) THEN 4
    ELSE 5

\* the rule of ElementProcessor._default_processor that renders tag (1..5)
default_rule(tag) ==
    IF contains(tag, <<"T","i","t","l","e">>) \/ contains(tag, <<"C","a","p","t","i","o","n">>) THEN 1
    ELSE IF contains(tag, <<"S","e","n","t","e","n","c","e">>) \/ contains(tag, <<"T","e","x","t">>) THEN 2
    ELSE IF contains(tag, <<"I","t","e","m">>) \/ contains(tag, <<"L","i","s","t">>) THEN 3
    ELSE IF contains(tag, <<"T","a","b","l","e">>) THEN 4
    ELSE 5

\* _default_processor with a generic container of flat text
_default_processor_flat(element, context) ==
    LET tag == clean_tag(element.tag)
        text == get_text(<<element>>)
        rule == default_rule(tag)
        wrap(open, body, close) ==
            <<open>> \o lower(tag) \o <<"\">">> \o body \o <<close>>
    IN  CASE rule = 1 -> Ok(wrap("<div class=\"", escape_html(text), "</div>"))
          [] rule = 2 -> Ok(wrap("<span class=\"", escape_html(text), "</span>"))
          [] rule = 3 -> Ok(wrap("<li class=\"", escape_html(text), "</li>"))
          [] rule = 4 -> _process_table_like(element)
          [] OTHER -> Ok(wrap("<div class=\"", escape_html(text), "</div>"))

\* ElementProcessor._default_processor
_default_processor(element, context) ==
    LET tag == clean_tag(element.tag)
        text == get_text(<<element>>)
        rule == default_rule(tag)
        wrap(open, body, close) ==
            <<open>> \o lower(tag) \o <<"\">">> \o body \o <<close>>
    IN  CASE rule = 1 -> Ok(wrap("<div class=\"", escape_html(text), "</div>"))
          [] rule = 2 -> Ok(wrap("<span class=\"", escape_html(text), "</span>"))
          [] rule = 3 -> Ok(wrap("<li class=\"", escape_html(text), "</li>"))
          [] rule = 4 -> _process_table_like(element)
          [] OTHER ->
                \* Generic container
                LET content == process_children(element, context)
                IN  Chain(<<Ok(<<"<div class=\"">> \o lower(tag) \o <<"\">">>),
                            content, Ok(<<"</div>">>)>>)

\* ElementProcessor.process_children
process_children(element, context) ==
    LET ctx == IF context = CtxNone THEN CtxEmpty ELSE context
        given(child) == [Ok(<<>>) EXCEPT !.handed = <<<<clean_tag(child.tag), child.id>>>>]
    IN  Chain([i \in 1..Len(element.kids) |->
                Then(given(element.kids[i]),
                     Invoke(get_processor(clean_tag(element.kids[i].tag)),
                            element.kids[i], ctx))])

\* process_element that renders nothing for a tag it has counted before
process_element_once(element, context) ==
    LET ctx == IF context = CtxNone THEN CtxEmpty ELSE context
        tag == clean_tag(element.tag)
        counted == [Ok(<<>>) EXCEPT !.log = <<<<tag, element.id>>>>,
                                   !.handed = <<<<tag, element.id>>>>]
    IN  IF tag \in DOMAIN element_stats THEN counted
        ELSE Then(counted, Invoke(get_processor(tag), element, ctx))

\* ElementProcessor.process_element
process_element(element, context) ==
    LET ctx == IF context = CtxNone THEN CtxEmpty ELSE context
        tag == clean_tag(element.tag)
        counted == [Ok(<<>>) EXCEPT !.log = <<<<tag, element.id>>>>,
                                   !.handed = <<<<tag, element.id>>>>]
    IN  Then(counted, Invoke(get_processor(tag), element, ctx))

\* self.element_stats after the dispatches of log
RECURSIVE count_visits(_, _)
count_visits(stats, log) ==
    IF log = <<>> THEN stats
    ELSE LET tag == Head(log)[1]
             seen == IF tag \in DOMAIN stats THEN stats[tag] ELSE 0
         IN  count_visits([t \in DOMAIN stats \cup {tag} |->
                              IF t = tag THEN seen + 1 ELSE stats[t]],
                          Tail(log))

----------------------------------------------------------------------------
(* src/xmlcv/processors.py: the default processor library *)

\* the results of F on each element of s, appended in order
each(s, F(_)) == Let1(s, LAMBDA v : Chain([i \in 1..Len(v) |-> F(v[i])]))

\* "processor.process_element(x, context) if processor else process_x(x, context)"
render(x, context, process_x) ==
    IF context_processor(context) THEN process_element(x, context)
    ELSE Invoke(process_x, x, context)

\* html += f'{open}{escape_html(text)}{close}' if text
block_if(text, open, close) ==
    IF text # <<>> THEN Ok(<<open>> \o escape_html(text) \o <<close>>)
    ELSE Ok(<<>>)

process_document(element, context) ==
    IF context = CtxNone THEN Raise  \* None.get: AttributeError
    ELSE IF context_processor(context) THEN process_children(element, context)
    ELSE Ok(<<>>)

process_document_title(element, context) ==
    block_if(get_text(<<element>>), "<div class=\"document-title\">", "</div>")

process_enact_statement(element, context) ==
    block_if(get_text(<<element>>),
             "<div class=\"enact-statement\" style=\"background: #fff3cd; padding: 20px; border-left: 4px solid #ffc107; margin: 20px 0; border-radius: 4px;\"><p style=\"margin: 0; line-height: 1.8;\">",
             "</p></div>")

process_toc(element, context) ==
    LET toc_label == get_text(find(element, <<"T","O","C","L","a","b","e","l">>))
        range_of(x) ==
            block_if(get_text(find(x, <<"A","r","t","i","c","l","e","R","a","n","g","e">>)),
                     " <span style=\"color: #666;\">", "</span>")
        toc_section(section) ==
            Chain(<<Ok(<<"<div class=\"toc-section\" style=\"margin: 5px 0; padding-left: 40px; color: #555;\">">>),
                    Ok(<<"<a href=\"#section-">> \o get(section, <<"N","u","m">>, <<>>)
                       \o <<"\" class=\"nav-link\">">>
                       \o escape_html(get_text(find(section, <<"S","e","c","t","i","o","n","T","i","t","l","e">>)))
                       \o <<"</a>">>),
                    range_of(section),
                    Ok(<<"</div>">>)>>)
        toc_chapter(chapter) ==
            Chain(<<Ok(<<"<div class=\"toc-chapter\" style=\"margin: 10px 0; padding-left: 20px;\">">>),
                    Ok(<<"<a href=\"#chapter-">> \o get(chapter, <<"N","u","m">>, <<>>)
                       \o <<"\" class=\"nav-link\">">>
                       \o escape_html(get_text(find(chapter, <<"C","h","a","p","t","e","r","T","i","t","l","e">>)))
                       \o <<"</a>">>),
                    range_of(chapter),
                    Ok(<<"</div>">>),
                    each(findall(chapter, <<"T","O","C","S","e","c","t","i","o","n">>), toc_section)>>)
        suppl == find(element, <<"T","O","C","S","u","p","p","l","P","r","o","v","i","s","i","o","n">>)
    IN  Chain(<<Ok(<<"<div class=\"toc\" style=\"background: #f8f9fa; padding: 20px; border-radius: 5px; margin: 30px 0;\">">>),
                block_if(toc_label,
                         "<div class=\"toc-title\" style=\"font-size: 1.3em; font-weight: bold; margin-bottom: 15px; color: #2c3e50;\">",
                         "</div>"),
                each(findall_desc(element, <<"T","O","C","C","h","a","p","t","e","r">>), toc_chapter),
                IF suppl # <<>>
                THEN block_if(get_text(find(suppl[1], <<"S","u","p","p","l","P","r","o","v","i","s","i","o","n","L","a","b","e","l">>)),
                              "<div class=\"toc-chapter\"><strong>", "</strong></div>")
                ELSE Ok(<<>>),
                Ok(<<"</div>">>)>>)

process_chapter(element, context) ==
    LET chapter_title == get_text(find(element, <<"C","h","a","p","t","e","r","T","i","t","l","e">>))
        chapter_num == get(element, <<"N","u","m">>, <<>>)
        section(x) == render(x, context, "process_section")
        article(x) == render(x, context, "process_article")
        sections_html == each(findall(element, <<"S","e","c","t","i","o","n">>), section)
        articles_html == each(findall(element, <<"A","r","t","i","c","l","e">>), article)
    IN  Chain(<<Ok(<<"<div class=\"chapter\" id=\"chapter-">> \o chapter_num
                   \o <<"\" style=\"margin: 40px 0; border-top: 2px solid #e0e0e0; padding-top: 20px;\">">>),
                block_if(chapter_title,
                         "<div class=\"chapter-title\" style=\"font-size: 1.5em; font-weight: bold; color: #2c3e50; margin-bottom: 20px;\">",
                         "</div>"),
                sections_html,
                articles_html,
                Ok(<<"</div>">>)>>)

process_section(element, context) ==
    LET section_title == get_text(find(element, <<"S","e","c","t","i","o","n","T","i","t","l","e">>))
        section_num == get(element, <<"N","u","m">>, <<>>)
        subsection(x) == render(x, context, "process_subsection")
        article(x) == render(x, context, "process_article")
        subsections_html == each(findall(element, <<"S","u","b","s","e","c","t","i","o","n">>), subsection)
        articles_html == each(findall(element, <<"A","r","t","i","c","l","e">>), article)
    IN  Chain(<<Ok(<<"<div class=\"section\" id=\"section-">> \o section_num
                   \o <<"\" style=\"margin: 30px 0; padding-left: 20px;\">">>),
                block_if(section_title,
                         "<div class=\"section-title\" style=\"font-size: 1.3em; font-weight: bold; color: #8e44ad; margin-bottom: 15px;\">",
                         "</div>"),
                subsections_html,
                articles_html,
                Ok(<<"</div>">>)>>)

process_subsection(element, context) ==
    LET subsection_title == get_text(find(element, <<"S","u","b","s","e","c","t","i","o","n","T","i","t","l","e">>))
        article(x) == render(x, context, "process_article")
        articles_html == each(findall(element, <<"A","r","t","i","c","l","e">>), article)
    IN  Chain(<<Ok(<<"<div class=\"subsection\" style=\"margin: 20px 0; padding-left: 30px;\">">>),
                block_if(subsection_title,
                         "<div class=\"section-title\" style=\"font-size: 1.1em; color: #9b59b6;\">",
                         "</div>"),
                articles_html,
                Ok(<<"</div>">>)>>)

\* process_article, lines 180-184: a Style child is rendered in place
article_style(style_elem, context) ==
    block_if(get_text(<<style_elem>>),
             "<div class=\"style\" style=\"margin: 10px 0; padding: 10px; background: #e8f5e9; border-left: 3px solid #4caf50; border-radius: 3px;\">",
             "</div>")

process_article(element, context) ==
    LET article_title == get_text(find(element, <<"A","r","t","i","c","l","e","T","i","t","l","e">>))
        article_caption == get_text(find(element, <<"A","r","t","i","c","l","e","C","a","p","t","i","o","n">>))
        article_num == get(element, <<"N","u","m">>, <<>>)
        paragraph(x) == render(x, context, "process_paragraph")
        style(x) == article_style(x, context)
        paragraphs_html == each(findall(element, <<"P","a","r","a","g","r","a","p","h">>), paragraph)
        styles_html == each(findall(element, <<"S","t","y","l","e">>), style)
    IN  Chain(<<Ok(<<"<div class=\"article\" id=\"article-">> \o article_num
                   \o <<"\" style=\"margin: 30px 0; padding: 20px; background: #fafafa; border-left: 4px solid #3498db; border-radius: 4px;\">">>),
                block_if(article_caption,
                         "<div class=\"article-caption\" style=\"font-size: 0.9em; color: #7f8c8d; margin-bottom: 5px; font-style: italic;\">",
                         "</div>"),
                block_if(article_title,
                         "<div class=\"article-title\" style=\"font-size: 1.2em; font-weight: bold; color: #2980b9; margin-bottom: 10px;\">",
                         "</div>"),
                paragraphs_html,
                styles_html,
                Ok(<<"</div>">>)>>)

\* the sentences of a paragraph with "not in" comparing content (==)
paragraph_sentences_by_value(element) ==
    LET nested == findall_path(element, <<"P","a","r","a","g","r","a","p","h","S","e","n","t","e","n","c","e">>, <<"S","e","n","t","e","n","c","e">>)
        same(a, b) == [a EXCEPT !.id = 0] = [b EXCEPT !.id = 0]
        already(sentence) == \E i \in 1..Len(nested) : same(nested[i], sentence)
    IN  nested
        \o SelectSeq(findall(element, <<"S","e","n","t","e","n","c","e">>), LAMBDA s : ~already(s))

\* process_paragraph, lines 203-218: the sentences it renders, in order
paragraph_sentences(element) ==
    LET nested == findall_path(element, <<"P","a","r","a","g","r","a","p","h","S","e","n","t","e","n","c","e">>, <<"S","e","n","t","e","n","c","e">>)
        \* "sentence not in [...]": Element defines no __eq__, so identity
        already(sentence) == \E i \in 1..Len(nested) : nested[i].id = sentence.id
    IN  nested
        \o SelectSeq(findall(element, <<"S","e","n","t","e","n","c","e">>), LAMBDA s : ~already(s))

process_paragraph(element, context) ==
    LET paragraph_num == get_text(find(element, <<"P","a","r","a","g","r","a","p","h","N","u","m">>))
        sentence(x) == render(x, context, "process_sentence")
        item(x) == render(x, context, "process_item")
        table_struct(x) == render(x, context, "process_table_struct")
        list_sentence(x) ==
            Chain(<<Ok(<<"<div class=\"list\" style=\"margin: 10px 0; padding-left: 20px; list-style-type: disc;\">">>),
                    sentence(x),
                    Ok(<<"</div>">>)>>)
        list(list_elem) ==
            each(findall_path(list_elem, <<"L","i","s","t","S","e","n","t","e","n","c","e">>, <<"S","e","n","t","e","n","c","e">>), list_sentence)
        sentences_html == each(paragraph_sentences(element), sentence)
        items_html == each(findall(element, <<"I","t","e","m">>), item)
        lists_html == each(findall(element, <<"L","i","s","t">>), list)
        tables_html == each(findall(element, <<"T","a","b","l","e","S","t","r","u","c","t">>), table_struct)
    IN  Chain(<<Ok(<<"<div class=\"paragraph\" style=\"margin: 15px 0; padding-left: 20px;\">">>),
                block_if(paragraph_num,
                         "<span class=\"paragraph-num\" style=\"font-weight: bold; color: #34495e; margin-right: 10px;\">",
                         "</span>"),
                sentences_html,
                items_html,
                lists_html,
                tables_html,
                Ok(<<"</div>">>)>>)

SentenceOpen == "<span class=\"sentence\" style=\"margin: 10px 0; text-indent: 1em;\">"

\* the text of a sentence with only "if not text"
sentence_text_not_stripped(element) ==
    LET text == get_text(<<element>>)
    IN  IF text = <<>> THEN <<NBSP>> ELSE text

\* process_sentence, lines 283-286: the text of a sentence without Ruby/Sub
sentence_text(element) ==
    LET text == get_text(<<element>>)
    IN  IF text = <<>> \/ strip(text) = <<>> THEN <<NBSP>> ELSE text

process_sentence(element, context) ==
    LET ruby_elements == findall(element, <<"R","u","b","y">>)
        sub_elements == findall(element, <<"S","u","b">>)
        inline(child) ==
            (IF child.tag = <<"R","u","b","y">>
             THEN LET rt == find(child, <<"R","t">>)
                  IN  IF rt # <<>>
                      THEN <<"<ruby>">> \o escape_html(child.text) \o <<"<rt>">>
                           \o escape_html(get_text(rt)) \o <<"</rt></ruby>">>
                      ELSE <<>>
             ELSE IF child.tag = <<"S","u","b">>
             THEN <<"<sub>">> \o escape_html(get_text(<<child>>)) \o <<"</sub>">>
             ELSE <<>>)
            \o escape_html(child.tail)
    IN  IF ruby_elements # <<>> \/ sub_elements # <<>>
        THEN Ok(<<SentenceOpen>> \o escape_html(element.text)
                \o concat([i \in 1..Len(element.kids) |-> inline(element.kids[i])])
                \o <<"</span>">>)
        ELSE Ok(<<SentenceOpen>> \o escape_html(sentence_text(element))
                \o <<"</span>">>)

\* col_content.strip() == ''
blank(html) == \A i \in 1..Len(html) : IsSpace(html[i])

\* process_table_struct, lines 424-446 (process_item, lines 305-326, is the
\* same code): the content of a cell
column_content(col, context) ==
    LET sentence(x) == render(x, context, "process_sentence")
        sentences_in_col == findall(col, <<"S","e","n","t","e","n","c","e">>)
        col_text == get_text(<<col>>)
        escaped == Ok(escape_html(col_text))
    IN  IF sentences_in_col # <<>> THEN each(sentences_in_col, sentence)
        ELSE IF context_processor(context)
        THEN LET or_text(col_content) ==
                     IF ~col_content.raised /\ blank(col_content.html)
                        /\ col_text # <<>>
                     THEN [escaped EXCEPT !.log = col_content.log,
                                    !.appended = col_content.appended,
                                    !.handed = col_content.handed]
                     ELSE col_content
             IN  Let1(process_children(col, context), or_text)
        ELSE escaped

process_item(element, context) ==
    LET item_title == get_text(find(element, <<"I","t","e","m","T","i","t","l","e">>))
        item_sentence == find(element, <<"I","t","e","m","S","e","n","t","e","n","c","e">>)
        columns == IF item_sentence = <<>> THEN <<>>
                   ELSE findall(item_sentence[1], <<"C","o","l","u","m","n">>)
        title_html ==
            block_if(item_title,
                     "<span class=\"item-title\" style=\"font-weight: bold; color: #27ae60; margin-right: 10px;\">",
                     "</span>")
        row(col) ==
            LET tr(col_content) ==
                    IF col_content.raised \/ ~blank(col_content.html)
                    THEN Chain(<<Ok(<<"<tr><td style=\"padding: 5px; border: 1px solid #ddd;\">">>),
                                 col_content,
                                 Ok(<<"</td></tr>">>)>>)
                    ELSE [Ok(<<>>) EXCEPT !.log = col_content.log,
                                    !.appended = col_content.appended,
                                    !.handed = col_content.handed]
            IN  Let1(column_content(col, context), tr)
        sentence(x) == render(x, context, "process_sentence")
        subitem1(x) == render(x, context, "process_subitem1")
        sentences_html ==
            each(findall_path(element, <<"I","t","e","m","S","e","n","t","e","n","c","e">>, <<"S","e","n","t","e","n","c","e">>), sentence)
        subitem1s_html == each(findall(element, <<"S","u","b","i","t","e","m","1">>), subitem1)
    IN  IF columns # <<>>
        THEN Chain(<<Ok(<<"<div class=\"item\" style=\"margin: 10px 0; padding-left: 30px;\">">>),
                     title_html,
                     Ok(<<"<table style=\"margin: 10px 0; border-collapse: collapse; width: 100%;\">">>),
                     each(columns, row),
                     Ok(<<"</table></div>">>)>>)
        ELSE Chain(<<Ok(<<"<div class=\"item\" style=\"margin: 10px 0; padding-left: 30px;\">">>),
                     title_html,
                     sentences_html,
                     subitem1s_html,
                     Ok(<<"</div>">>)>>)

\* process_subitem1, lines 372-385: a Subitem2 child is rendered in place
subitem1_subitem2(subitem2, context) ==
    LET subitem2_title == get_text(find(subitem2, <<"S","u","b","i","t","e","m","2","T","i","t","l","e">>))
        sentence(x) == render(x, context, "process_sentence")
        subitem2_sentences ==
            each(findall_path(subitem2, <<"S","u","b","i","t","e","m","2","S","e","n","t","e","n","c","e">>, <<"S","e","n","t","e","n","c","e">>), sentence)
    IN  Chain(<<Ok(<<"<div class=\"subitem2\" style=\"margin: 5px 0; padding-left: 20px;\">">>),
                block_if(subitem2_title,
                         "<span class=\"item-title\" style=\"color: #e67e22;\">",
                         "</span>"),
                subitem2_sentences,
                Ok(<<"</div>">>)>>)

process_subitem1(element, context) ==
    LET subitem_title == get_text(find(element, <<"S","u","b","i","t","e","m","1","T","i","t","l","e">>))
        sentence(x) == render(x, context, "process_sentence")
        subitem2(x) == subitem1_subitem2(x, context)
        sentences_html ==
            each(findall_path(element, <<"S","u","b","i","t","e","m","1","S","e","n","t","e","n","c","e">>, <<"S","e","n","t","e","n","c","e">>), sentence)
        subitem2s_html == each(findall(element, <<"S","u","b","i","t","e","m","2">>), subitem2)
    IN  Chain(<<Ok(<<"<div class=\"subitem1\" style=\"margin: 8px 0; padding-left: 15px;\">">>),
                block_if(subitem_title,
                         "<span class=\"item-title\" style=\"color: #d35400;\">",
                         "</span>"),
                sentences_html,
                subitem2s_html,
                Ok(<<"</div>">>)>>)

\* any value of the attribute draws the edge
border_if_set(col, name) ==
    IF get(col, name, <<>>) # <<>> THEN "1px solid #333" ELSE "none"

\* process_table_struct, lines 414-417: one edge of a cell's border
border(col, name) ==
    IF get(col, name, <<>>) = <<"s","o","l","i","d">> THEN "1px solid #333" ELSE "none"

process_table_struct(element, context) ==
    LET table_title == get_text(find(element, <<"T","a","b","l","e","S","t","r","u","c","t","T","i","t","l","e">>))
        table_elem == find(element, <<"T","a","b","l","e">>)
        span_attr(col, name, open) ==
            IF get(col, name, <<>>) # <<>>
            THEN <<open>> \o get(col, name, <<>>) \o <<"\"">>
            ELSE <<>>
        cell(col) ==
            Chain(<<Ok(<<"<td style=\"", "border-top: ", border(col, <<"B","o","r","d","e","r","T","o","p">>),
                         "; border-bottom: ", border(col, <<"B","o","r","d","e","r","B","o","t","t","o","m">>),
                         "; border-left: ", border(col, <<"B","o","r","d","e","r","L","e","f","t">>),
                         "; border-right: ", border(col, <<"B","o","r","d","e","r","R","i","g","h","t">>),
                         "; padding: 8px; vertical-align: top;", "\"">>
                       \o span_attr(col, <<"r","o","w","s","p","a","n">>, " rowspan=\"")
                       \o span_attr(col, <<"c","o","l","s","p","a","n">>, " colspan=\"")
                       \o <<">">>),
                    column_content(col, context),
                    Ok(<<"</td>">>)>>)
        tr(row) ==
            Chain(<<Ok(<<"<tr>">>),
                    each(findall(row, <<"T","a","b","l","e","C","o","l","u","m","n">>), cell),
                    Ok(<<"</tr>">>)>>)
    IN  IF table_elem = <<>> THEN Ok(<<>>)
        ELSE Chain(<<Ok(<<"<div class=\"table-wrapper\" style=\"margin: 20px 0; overflow-x: auto;\">">>),
                     block_if(table_title,
                              "<div class=\"article-caption\" style=\"margin-bottom: 10px; font-weight: bold;\">",
                              "</div>"),
                     Ok(<<"<table style=\"border-collapse: collapse; width: 100%; border: 1px solid #ddd;\">">>),
                     each(findall(table_elem[1], <<"T","a","b","l","e","R","o","w">>), tr),
                     Ok(<<"</table></div>">>)>>)

process_suppl_provision(element, context) ==
    LET suppl_label == get_text(find(element, <<"S","u","p","p","l","P","r","o","v","i","s","i","o","n","L","a","b","e","l">>))
        amend_num ==
            IF get(element, <<"A","m","e","n","d","L","a","w","N","u","m">>, <<>>) # <<>>
            THEN get(element, <<"A","m","e","n","d","L","a","w","N","u","m">>, <<>>)
            ELSE get(element, <<"A","m","e","n","d","N","u","m">>, <<>>)
        article(x) == render(x, context, "process_article")
        paragraph(x) ==
            Chain(<<Ok(<<"<div class=\"paragraph-section\">">>),
                    block_if(get_text(find(x, <<"P","a","r","a","g","r","a","p","h","C","a","p","t","i","o","n">>)),
                             "<div class=\"article-caption\">", "</div>"),
                    render(x, context, "process_paragraph"),
                    Ok(<<"</div>">>)>>)
        articles_html == each(findall(element, <<"A","r","t","i","c","l","e">>), article)
        paragraphs_html == each(findall(element, <<"P","a","r","a","g","r","a","p","h">>), paragraph)
    IN  Chain(<<Ok(<<"<div class=\"chapter\" id=\"", "suppl-provision",
                     "\" style=\"margin: 40px 0; border-top: 2px solid #e0e0e0; padding-top: 20px;\">">>),
                block_if(suppl_label,
                         "<div class=\"chapter-title\" style=\"font-size: 1.5em; font-weight: bold; color: #2c3e50; margin-bottom: 20px;\">",
                         "</div>"),
                block_if(amend_num,
                         "<div class=\"document-meta\" style=\"margin-bottom: 15px;\">",
                         "</div>"),
                articles_html,
                paragraphs_html,
                Ok(<<"</div>">>)>>)

process_appdx_table(element, context) ==
    LET appdx_title == get_text(find(element, <<"A","p","p","d","x","T","a","b","l","e","T","i","t","l","e">>))
        related_article == get_text(find(element, <<"R","e","l","a","t","e","d","A","r","t","i","c","l","e","N","u","m">>))
        table_struct == find(element, <<"T","a","b","l","e","S","t","r","u","c","t">>)
        table_elem == find(element, <<"T","a","b","l","e">>)
        \* ET.Element('TableStruct') with table_elem appended
        temp_table_struct == Node(<<"T","a","b","l","e","S","t","r","u","c","t">>, <<>>, table_elem)
        table_html ==
            IF table_struct # <<>>
            THEN render(table_struct[1], context, "process_table_struct")
            ELSE IF table_elem # <<>>
            THEN \* temp_table_struct.append(table_elem)
                 Then([Ok(<<>>) EXCEPT !.appended = <<table_elem[1].id>>],
                      render(temp_table_struct, context, "process_table_struct"))
            ELSE Ok(<<>>)
    IN  Chain(<<Ok(<<"<div class=\"appdx-table\" style=\"margin: 30px 0; padding: 20px; background: #f8f9fa; border-radius: 5px;\">">>),
                block_if(appdx_title,
                         "<div class=\"chapter-title\" style=\"margin-bottom: 10px;\">",
                         "</div>"),
                block_if(related_article,
                         "<div class=\"document-meta\" style=\"margin-bottom: 15px; font-style: italic;\">",
                         "</div>"),
                table_html,
                Ok(<<"</div>">>)>>)

\* examples/basic_usage.py: a user-supplied processor
my_custom_processor(element, context) ==
    \* text = element.text or ""
    Ok(<<"<div class=\"custom-element\">">> \o element.text \o <<"</div>">>)

\* processors.get_all_processors
get_all_processors ==
    [tag \in {<<"D","o","c","u","m","e","n","t">>, <<"D","o","c","u","m","e","n","t","T","i","t","l","e">>, <<"E","n","a","c","t","S","t","a","t","e","m","e","n","t">>, <<"T","O","C">>,
              <<"C","h","a","p","t","e","r">>, <<"S","e","c","t","i","o","n">>, <<"S","u","b","s","e","c","t","i","o","n">>, <<"A","r","t","i","c","l","e">>, <<"P","a","r","a","g","r","a","p","h">>,
              <<"S","e","n","t","e","n","c","e">>, <<"I","t","e","m">>, <<"S","u","b","i","t","e","m","1">>, <<"T","a","b","l","e","S","t","r","u","c","t">>,
              <<"S","u","p","p","l","P","r","o","v","i","s","i","o","n">>, <<"A","p","p","d","x","T","a","b","l","e">>} |->
        CASE tag = <<"D","o","c","u","m","e","n","t">> -> "process_document"
          [] tag = <<"D","o","c","u","m","e","n","t","T","i","t","l","e">> -> "process_document_title"
          [] tag = <<"E","n","a","c","t","S","t","a","t","e","m","e","n","t">> -> "process_enact_statement"
          [] tag = <<"T","O","C">> -> "process_toc"
          [] tag = <<"C","h","a","p","t","e","r">> -> "process_chapter"
          [] tag = <<"S","e","c","t","i","o","n">> -> "process_section"
          [] tag = <<"S","u","b","s","e","c","t","i","o","n">> -> "process_subsection"
          [] tag = <<"A","r","t","i","c","l","e">> -> "process_article"
          [] tag = <<"P","a","r","a","g","r","a","p","h">> -> "process_paragraph"
          [] tag = <<"S","e","n","t","e","n","c","e">> -> "process_sentence"
          [] tag = <<"I","t","e","m">> -> "process_item"
          [] tag = <<"S","u","b","i","t","e","m","1">> -> "process_subitem1"
          [] tag = <<"T","a","b","l","e","S","t","r","u","c","t">> -> "process_table_struct"
          [] tag = <<"S","u","p","p","l","P","r","o","v","i","s","i","o","n">> -> "process_suppl_provision"
          [] tag = <<"A","p","p","d","x","T","a","b","l","e">> -> "process_appdx_table"]

\* processor(element, context): the call of a processor by its name
Invoke(processor, element, context) ==
    CASE processor = "_default_processor" -> _default_processor(element, context)
      [] processor = "process_document" -> process_document(element, context)
      [] processor = "process_document_title" -> process_document_title(element, context)
      [] processor = "process_enact_statement" -> process_enact_statement(element, context)
      [] processor = "process_toc" -> process_toc(element, context)
      [] processor = "process_chapter" -> process_chapter(element, context)
      [] processor = "process_section" -> process_section(element, context)
      [] processor = "process_subsection" -> process_subsection(element, context)
      [] processor = "process_article" -> process_article(element, context)
      [] processor = "process_paragraph" -> process_paragraph(element, context)
      [] processor = "process_sentence" -> process_sentence(element, context)
      [] processor = "process_item" -> process_item(element, context)
      [] processor = "process_subitem1" -> process_subitem1(element, context)
      [] processor = "process_table_struct" -> process_table_struct(element, context)
      [] processor = "process_suppl_provision" -> process_suppl_provision(element, context)
      [] processor = "process_appdx_table" -> process_appdx_table(element, context)
      [] processor = "my_custom_processor" -> my_custom_processor(element, context)
      [] OTHER -> Raise  \* not callable: TypeError

----------------------------------------------------------------------------
(* Construction *)

\* a dict without entries
EmptyDict == [t \in {} |-> "none"]

\* for element_name, processor_func in d.items():
\*     self.processor.register_processor(element_name, processor_func)
RECURSIVE register_all(_, _)
register_all(registry, d) ==
    IF DOMAIN d = {} THEN registry
    ELSE LET element_name == CHOOSE t \in DOMAIN d : TRUE
             rest(r) == register_all(r, [u \in DOMAIN d \ {element_name} |-> d[u]])
         IN  Let1(register_processor(registry, element_name, d[element_name]), rest)

\* ConverterConfig(element_processors=given, strip_namespace=strip_namespace)
ConverterConfig(given, strip_namespace) ==
    [element_processors |->
        \* __post_init__
        IF DOMAIN given = {} THEN get_all_processors ELSE given,
     strip_namespace |-> strip_namespace,
     include_toc |-> TRUE,
     include_navigation |-> TRUE]

\* XMLToHTMLConverter.__init__: self.processor.processors
Constructed(cfg) ==
    register_all(register_all(EmptyDict, get_all_processors),
                 cfg.element_processors)

\* the element_processors a user passes to ConverterConfig
UserProcessors ==
    { EmptyDict,
      [t \in {<<"M","y","C","u","s","t","o","m","E","l","e","m","e","n","t">>} |-> "my_custom_processor"],
      [t \in {<<"S","e","n","t","e","n","c","e">>, <<"N","o","t","e">>} |->
          IF t = <<"S","e","n","t","e","n","c","e">> THEN "my_custom_processor" ELSE "process_sentence"] }

NoCall == [call |-> "none"]

Init ==
    /\ \E given \in UserProcessors, strip_namespace \in BOOLEAN :
          config = ConverterConfig(given, strip_namespace)
    /\ processors = Constructed(config)
    /\ element_stats = [t \in {} |-> 0]
    /\ calls = <<>>
    /\ tree = <<>>
    /\ last = NoCall
    /\ pc = "idle"
    /\ title_text = <<>>

----------------------------------------------------------------------------
(* Bounds *)

\* register_processor calls after construction
MaxRegs == 2
\* the visit counter of the root's tag: process_element is not called on a
\* root whose tag was counted MaxVisits times
MaxVisits == 2

----------------------------------------------------------------------------
(* Operations *)

\* ET.parse(xml_path).getroot() for a document of Docs
Parse(Docs) ==
    /\ tree = <<>>
    /\ \E d \in Docs : tree' = <<Number(d, 1)>>
    /\ UNCHANGED <<config, processors, element_stats, calls, last, pc, title_text>>

\* processor.register_processor(element_name, processor)
Register(Tags, Procs) ==
    /\ Len(calls) < MaxRegs
    /\ \E element_name \in Tags, processor \in Procs :
          /\ processors' = register_processor(processors, element_name, processor)
          /\ calls' = Append(calls, <<element_name, processor>>)
          /\ last' = [call |-> "register_processor",
                      element_name |-> element_name, processor |-> processor]
    /\ UNCHANGED <<config, element_stats, tree, pc, title_text>>

\* processor.get_processor(element_name)
Lookup(Tags) ==
    /\ \E element_name \in Tags :
          last' = [call |-> "get_processor", element_name |-> element_name,
                   value |-> get_processor(element_name)]
    /\ UNCHANGED <<config, processors, element_stats, calls, tree, pc, title_text>>

\* self.element_stats[tag] (a defaultdict(int))
visits(tag) == IF tag \in DOMAIN element_stats THEN element_stats[tag] ELSE 0

\* processor.process_element(root, context)
Dispatch ==
    /\ tree # <<>>
    /\ visits(clean_tag(tree[1].tag)) < MaxVisits
    /\ \E context \in Contexts :
          LET value == process_element(tree[1], context)
          IN  /\ last' = [call |-> "process_element", context |-> context,
                          value |-> value]
              /\ element_stats' = count_visits(element_stats, value.log)
              /\ tree' = <<after_appends(tree[1], value.appended)>>
    /\ UNCHANGED <<config, processors, calls, pc, title_text>>

----------------------------------------------------------------------------
(* The registry: register_processor, get_processor and process_element on *)
(* elements with registered and unregistered tags                         *)

RegistryTags == {<<"N","o","t","e">>, <<"S","e","n","t","e","n","c","e">>}
RegistryProcs == {"my_custom_processor", "process_document"}
LookupTags == {<<"N","o","t","e">>, <<"S","e","n","t","e","n","c","e">>, <<"s","e","n","t","e","n","c","e">>, <<"B","o","x">>, <<"D","o","c","u","m","e","n","t">>,
               <<"M","y","C","u","s","t","o","m","E","l","e","m","e","n","t">>}

X == <<"X">>

RegistryDocs ==
    { Node(<<"B","o","x">>, X, <<>>),
      Node(<<"N","o","t","e">>, X, <<Node(<<"D","o","c","u","m","e","n","t">>, <<>>, <<Node(<<"B","o","x">>, X, <<>>)>>)>>),
      Node(<<"B","o","x">>, <<>>, <<Node(<<"N","o","t","e">>, X, <<>>), Node(<<"S","e","n","t","e","n","c","e">>, X, <<>>)>>),
      Node(<<"{","u","r","n",":","x","}","B","o","x">>, <<>>, <<Node(<<"{","u","r","n",":","x","}","S","e","n","t","e","n","c","e">>, X, <<>>)>>),
      Node(<<"I","t","e","m","T","i","t","l","e">>, X, <<Node(<<"D","o","c","u","m","e","n","t">>, X, <<>>)>>),
      Node(<<"D","a","t","a","T","a","b","l","e">>, <<>>, <<Node(<<"N","o","t","e">>, <<>>, <<Node(<<"D","o","c","u","m","e","n","t">>, X, <<>>)>>)>>),
      Node(<<"S","e","n","t","e","n","c","e">>, X, <<>>),
      Node(<<"D","o","c","u","m","e","n","t">>, <<>>, <<Node(<<"B","o","x">>, X, <<>>)>>) }

Next ==
    \/ Parse(RegistryDocs)
    \/ Register(RegistryTags, RegistryProcs)
    \/ Lookup(LookupTags)
    \/ Dispatch

Spec == Init /\ [][Next]_vars

----------------------------------------------------------------------------
(* The default processor on documents of unregistered tags *)

\* the depth of the trees of unknown containers
MaxDepth == 2

DefaultTexts == {<<>>, X, <<" ","a","<","b"," ">>}

\* tags that match one, several or none of the keyword rules, and their
\* variants in letter case
DefaultTags ==
    { <<"T","i","t","l","e">>, <<"C","a","p","t","i","o","n">>, <<"T","e","x","t">>, <<"L","i","s","t">>, <<"I","t","e","m","s">>, <<"T","a","b","l","e">>,
      <<"I","t","e","m","T","i","t","l","e">>, <<"T","a","b","l","e","C","a","p","t","i","o","n">>, <<"T","e","x","t","L","i","s","t">>, <<"L","i","s","t","T","a","b","l","e">>, <<"S","e","n","t","e","n","c","e","L","i","s","t">>,
      <<"t","i","t","l","e">>, <<"T","I","T","L","E">>, <<"s","u","b","t","i","t","l","e">>, <<"i","t","e","m","t","i","t","l","e">>, <<"t","a","b","l","e">>, <<"T","A","B","L","E">>,
      <<"d","a","t","a","t","a","b","l","e">>, <<"D","a","t","a","T","a","b","l","e">>, <<"t","e","x","t">>, <<"l","i","s","t">>,
      <<"N","o","t","e">>, <<"B","o","x">>, <<"n","o","t","e">>, <<"{","u","r","n",":","x","}","T","i","t","l","e">>, <<"{","u","r","n",":","x","}","B","o","x">> }

DefaultKids ==
    { <<>>,
      <<Node(<<"B","o","x">>, X, <<>>)>>,
      <<Node(<<"S","e","n","t","e","n","c","e">>, X, <<>>), Elem(<<"N","o","t","e">>, <<>>, X, <<Node(<<"B","o","x">>, <<>>, <<>>)>>, X)>>,
      <<Node(<<"R","o","w">>, <<>>, <<Node(<<"C","o","l","u","m","n">>, X, <<>>), Node(<<"C","e","l","l">>, <<"Y">>, <<>>)>>),
        Node(<<"L","i","n","e">>, X, <<Node(<<"C","e","l","l">>, <<"<">>, <<>>)>>)>> }

\* tables whose rows are below a child of the table
GroupedKids ==
    <<Node(<<"G","r","o","u","p">>, <<>>,
           <<Node(<<"R","o","w">>, <<>>, <<Node(<<"C","o","l","u","m","n">>, X, <<>>), Node(<<"C","o","l","u","m","n">>, <<"Y">>, <<>>)>>)>>),
      Node(<<"L","i","n","e">>, X, <<Node(<<"C","e","l","l">>, <<"<">>, <<>>)>>)>>

GroupedDocs == {Node(t, <<>>, GroupedKids) : t \in {<<"T","a","b","l","e">>, <<"D","a","t","a","T","a","b","l","e">>, <<"B","o","x">>}}

\* trees of unknown containers, nested up to depth
RECURSIVE Containers(_)
Containers(depth) ==
    LET below == IF depth = 0 THEN {} ELSE Containers(depth - 1)
        forests == {<<>>} \cup {<<c>> : c \in below}
                   \cup {<<Node(<<"L","e","a","f">>, <<>>, <<>>), c>> : c \in below}
    IN  {Node(t, <<>>, ks) : t \in {<<"N","o","t","e">>, <<"B","o","x">>}, ks \in forests}

DefaultDocs ==
    {Node(t, x, ks) : t \in DefaultTags, x \in DefaultTexts, ks \in DefaultKids}
    \cup GroupedDocs
    \cup Containers(MaxDepth)

NextDefault ==
    \/ Parse(DefaultDocs)
    \/ Dispatch

SpecDefault == Init /\ [][NextDefault]_vars

----------------------------------------------------------------------------
(* User overrides under the built-in processors *)

OverrideTags == {<<"S","u","b","i","t","e","m","2">>, <<"S","t","y","l","e">>}
OverrideProcs == {"my_custom_processor"}

Subitem2Doc ==
    Node(<<"S","u","b","i","t","e","m","2">>, <<>>,
         <<Node(<<"S","u","b","i","t","e","m","2","T","i","t","l","e">>, <<"t">>, <<>>),
           Node(<<"S","u","b","i","t","e","m","2","S","e","n","t","e","n","c","e">>, <<>>, <<Node(<<"S","e","n","t","e","n","c","e">>, X, <<>>)>>)>>)

Subitem1Doc ==
    Node(<<"S","u","b","i","t","e","m","1">>, <<>>,
         <<Node(<<"S","u","b","i","t","e","m","1","T","i","t","l","e">>, <<"T">>, <<>>),
           Node(<<"S","u","b","i","t","e","m","1","S","e","n","t","e","n","c","e">>, <<>>, <<Node(<<"S","e","n","t","e","n","c","e">>, X, <<>>)>>),
           Subitem2Doc>>)

StyleDoc == Node(<<"S","t","y","l","e">>, X, <<>>)

ArticleDoc ==
    Elem(<<"A","r","t","i","c","l","e">>, <<<<<<"N","u","m">>, <<"1">>>>>>, <<>>,
         <<Node(<<"A","r","t","i","c","l","e","T","i","t","l","e">>, <<"T">>, <<>>),
           Node(<<"P","a","r","a","g","r","a","p","h">>, <<>>,
                <<Node(<<"P","a","r","a","g","r","a","p","h","S","e","n","t","e","n","c","e">>, <<>>, <<Node(<<"S","e","n","t","e","n","c","e">>, X, <<>>)>>)>>),
           StyleDoc>>,
         <<>>)

OverrideDocs ==
    { Subitem2Doc, Subitem1Doc, StyleDoc, ArticleDoc,
      Node(<<"S","u","b","i","t","e","m","1">>, <<>>, <<Subitem2Doc, Node(<<"S","u","b","i","t","e","m","2">>, X, <<>>)>>),
      Node(<<"A","r","t","i","c","l","e">>, <<>>, <<StyleDoc>>),
      Node(<<"I","t","e","m">>, <<>>, <<Node(<<"I","t","e","m","T","i","t","l","e">>, <<"T">>, <<>>), Subitem1Doc>>),
      Node(<<"P","a","r","a","g","r","a","p","h">>, <<>>, <<Node(<<"I","t","e","m">>, <<>>, <<Subitem1Doc>>)>>),
      Node(<<"C","h","a","p","t","e","r">>, <<>>, <<ArticleDoc>>),
      Node(<<"B","o","x">>, <<>>, <<Subitem2Doc, StyleDoc>>) }

NextOverride ==
    \/ Parse(OverrideDocs)
    \/ Register(OverrideTags, OverrideProcs)
    \/ Dispatch

SpecOverride == Init /\ [][NextOverride]_vars

----------------------------------------------------------------------------
(* The built-in processors on table cells, paragraphs and sentences *)

\* the tags of the only child of a cell
CellChildTags == {<<"N","o","t","e">>, <<"P","a","r","a","g","r","a","p","h">>, <<"T","i","t","l","e">>, <<"B","o","x">>, <<"T","e","x","t">>, <<"S","e","n","t","e","n","c","e">>}

CellKids ==
    {<<Node(c, X, <<>>)>> : c \in CellChildTags}
    \cup { <<>>,
           <<Node(<<"N","o","t","e">>, X, <<>>), Node(<<"S","e","n","t","e","n","c","e">>, <<"S">>, <<>>)>>,
           <<Node(<<"N","o","t","e">>, <<>>, <<Node(<<"B","o","x">>, X, <<>>)>>)>> }

CellDocs ==
    {Node(<<"T","a","b","l","e","S","t","r","u","c","t">>, <<>>,
          <<Node(<<"T","a","b","l","e">>, <<>>,
                 <<Node(<<"T","a","b","l","e","R","o","w">>, <<>>, <<Node(<<"T","a","b","l","e","C","o","l","u","m","n">>, <<>>, ks)>>)>>)>>)
        : ks \in CellKids}
    \cup {Node(<<"I","t","e","m">>, <<>>,
               <<Node(<<"I","t","e","m","S","e","n","t","e","n","c","e">>, <<>>, <<Node(<<"C","o","l","u","m","n">>, <<>>, ks)>>)>>)
            : ks \in CellKids}
    \cup { Node(<<"T","a","b","l","e","S","t","r","u","c","t">>, <<>>,
                <<Node(<<"T","a","b","l","e","S","t","r","u","c","t","T","i","t","l","e">>, <<"T">>, <<>>),
                  Node(<<"T","a","b","l","e">>, <<>>,
                       <<Node(<<"T","a","b","l","e","R","o","w">>, <<>>,
                              <<Elem(<<"T","a","b","l","e","C","o","l","u","m","n">>,
                                     <<<<<<"B","o","r","d","e","r","T","o","p">>, <<"s","o","l","i","d">>>>, <<<<"r","o","w","s","p","a","n">>, <<"2">>>>>>,
                                     X, <<>>, <<>>),
                                Node(<<"T","a","b","l","e","C","o","l","u","m","n">>, <<" "," ">>, <<>>)>>)>>)>>),
           Node(<<"T","a","b","l","e","S","t","r","u","c","t">>, X, <<>>),
           Node(<<"A","p","p","d","x","T","a","b","l","e">>, <<>>,
                <<Node(<<"A","p","p","d","x","T","a","b","l","e","T","i","t","l","e">>, <<"T">>, <<>>),
                  Node(<<"T","a","b","l","e">>, <<>>,
                       <<Node(<<"T","a","b","l","e","R","o","w">>, <<>>,
                              <<Node(<<"T","a","b","l","e","C","o","l","u","m","n">>, <<>>,
                                     <<Node(<<"N","o","t","e">>, X, <<>>)>>)>>)>>)>>) }

\* the attributes of a TableColumn: edges that are solid, spelled otherwise,
\* empty or absent, and spans that are set, empty or absent
ColumnAttribs ==
    { <<<<<<"B","o","r","d","e","r","T","o","p">>, <<"s","o","l","i","d">>>>>>,
      <<<<<<"B","o","r","d","e","r","T","o","p">>, <<"S","o","l","i","d">>>>, <<<<"B","o","r","d","e","r","B","o","t","t","o","m">>, <<"s","o","l","i","d">>>>>>,
      <<<<<<"B","o","r","d","e","r","L","e","f","t">>, <<"n","o","n","e">>>>, <<<<"B","o","r","d","e","r","R","i","g","h","t">>, <<"s","o","l","i","d">>>>, <<<<"c","o","l","s","p","a","n">>, <<"3">>>>>>,
      <<<<<<"B","o","r","d","e","r","T","o","p">>, <<>>>>, <<<<"r","o","w","s","p","a","n">>, <<>>>>, <<<<"c","o","l","s","p","a","n">>, <<"2">>>>>>,
      <<<<<<"B","o","r","d","e","r","T","o","p">>, <<"s","o","l","i","d">>>>, <<<<"B","o","r","d","e","r","B","o","t","t","o","m">>, <<"s","o","l","i","d">>>>,
        <<<<"B","o","r","d","e","r","L","e","f","t">>, <<"s","o","l","i","d">>>>, <<<<"B","o","r","d","e","r","R","i","g","h","t">>, <<"s","o","l","i","d">>>>,
        <<<<"r","o","w","s","p","a","n">>, <<"1">>>>, <<<<"c","o","l","s","p","a","n">>, <<"a"," ","b">>>>>>,
      <<<<<<"B","o","r","d","e","r","L","e","f","t">>, <<"s","o","l","i","d">>>>, <<<<"r","o","w","s","p","a","n">>, <<"2">>>>, <<<<"c","o","l","s","p","a","n">>, <<>>>>>> }

Column(attrib) == Elem(<<"T","a","b","l","e","C","o","l","u","m","n">>, attrib, X, <<>>, <<>>)

BorderDocs ==
    {Node(<<"T","a","b","l","e","S","t","r","u","c","t">>, <<>>,
          <<Node(<<"T","a","b","l","e">>, <<>>, <<Node(<<"T","a","b","l","e","R","o","w">>, <<>>, <<Column(a)>>)>>)>>)
        : a \in ColumnAttribs}
    \cup { Node(<<"T","a","b","l","e","S","t","r","u","c","t">>, <<>>,
                <<Node(<<"T","a","b","l","e">>, <<>>,
                       <<Node(<<"T","a","b","l","e","R","o","w">>, <<>>,
                              <<Column(<<<<<<"B","o","r","d","e","r","R","i","g","h","t">>, <<"s","o","l","i","d">>>>>>),
                                Column(<<<<<<"r","o","w","s","p","a","n">>, <<"2">>>>>>)>>),
                         Node(<<"T","a","b","l","e","R","o","w">>, <<>>,
                              <<Column(<<<<<<"B","o","r","d","e","r","B","o","t","t","o","m">>, <<"s","o","l","i","d">>>>,
                                         <<<<"c","o","l","s","p","a","n">>, <<"2">>>>>>)>>)>>)>>) }

A == <<"A">>
B == <<"B">>

\* <ParagraphSentence> with one Sentence for every text of texts
ParagraphSentence(texts) ==
    Node(<<"P","a","r","a","g","r","a","p","h","S","e","n","t","e","n","c","e">>, <<>>,
         [i \in 1..Len(texts) |-> Node(<<"S","e","n","t","e","n","c","e">>, texts[i], <<>>)])

ParagraphKids ==
    { <<>>,
      <<ParagraphSentence(<<A>>), Node(<<"S","e","n","t","e","n","c","e">>, B, <<>>)>>,
      <<ParagraphSentence(<<A>>), Node(<<"S","e","n","t","e","n","c","e">>, A, <<>>)>>,
      <<Node(<<"S","e","n","t","e","n","c","e">>, A, <<>>), Node(<<"S","e","n","t","e","n","c","e">>, A, <<>>)>>,
      <<Node(<<"S","e","n","t","e","n","c","e">>, B, <<>>), ParagraphSentence(<<A, B>>),
        ParagraphSentence(<<A>>)>>,
      <<ParagraphSentence(<<>>), Node(<<"S","e","n","t","e","n","c","e">>, <<>>, <<>>)>>,
      <<Node(<<"P","a","r","a","g","r","a","p","h","S","e","n","t","e","n","c","e">>, <<>>,
             <<Node(<<"B","o","x">>, <<>>, <<Node(<<"S","e","n","t","e","n","c","e">>, A, <<>>)>>)>>),
        Node(<<"S","e","n","t","e","n","c","e">>, B, <<>>)>>,
      <<Node(<<"P","a","r","a","g","r","a","p","h","N","u","m">>, <<"1">>, <<>>),
        ParagraphSentence(<<A>>),
        Node(<<"I","t","e","m">>, <<>>,
             <<Node(<<"I","t","e","m","S","e","n","t","e","n","c","e">>, <<>>, <<Node(<<"S","e","n","t","e","n","c","e">>, <<"I">>, <<>>)>>)>>),
        Node(<<"L","i","s","t">>, <<>>,
             <<Node(<<"L","i","s","t","S","e","n","t","e","n","c","e">>, <<>>, <<Node(<<"S","e","n","t","e","n","c","e">>, <<"L">>, <<>>)>>)>>),
        Node(<<"S","e","n","t","e","n","c","e">>, B, <<>>),
        Node(<<"S","e","n","t","e","n","c","e">>, A, <<>>)>> }

ParagraphDocs == {Node(<<"P","a","r","a","g","r","a","p","h">>, <<>>, ks) : ks \in ParagraphKids}

SentenceTexts == {<<>>, <<" ">>, <<" ", "\n", NBSP>>, X, <<" ","a","<","b"," ">>}

SentenceKids ==
    { <<>>,
      <<Elem(<<"B","o","x">>, <<>>, <<" ">>, <<>>, <<" ">>)>>,
      <<Elem(<<"B","o","x">>, <<>>, <<>>, <<>>, <<>>)>>,
      <<Elem(<<"B","o","x">>, <<>>, <<>>, <<>>, X)>>,
      <<Elem(<<"R","u","b","y">>, <<>>, <<" ">>, <<Node(<<"R","t">>, <<"r">>, <<>>)>>, <<" ">>)>>,
      <<Elem(<<"S","u","b">>, <<>>, <<>>, <<>>, <<>>)>> }

SentenceDocs ==
    {Node(<<"S","e","n","t","e","n","c","e">>, x, ks) : x \in SentenceTexts, ks \in SentenceKids}

LibraryDocs == CellDocs \cup BorderDocs \cup ParagraphDocs \cup SentenceDocs

NextLibrary ==
    \/ Parse(LibraryDocs)
    \/ Dispatch

SpecLibrary == Init /\ [][NextLibrary]_vars

----------------------------------------------------------------------------
(* XMLToHTMLConverter.convert_file: the inference of the document title *)

\* len(text) < 500
TitleLimit == 500

\* the title-like tags without 'name'
title_tags_without_name ==
    <<<<"t","i","t","l","e">>, <<"h","e","a","d","i","n","g">>, <<"d","o","c","u","m","e","n","t","t","i","t","l","e">>, <<"b","o","o","k","_","t","i","t","l","e">>, <<"d","o","c","u","m","e","n","t","_","t","i","t","l","e">>>>

title_tags ==
    <<<<"t","i","t","l","e">>, <<"n","a","m","e">>, <<"h","e","a","d","i","n","g">>, <<"d","o","c","u","m","e","n","t","t","i","t","l","e">>, <<"b","o","o","k","_","t","i","t","l","e">>,
      <<"d","o","c","u","m","e","n","t","_","t","i","t","l","e">>>>

placeholders == {<<"t","i","t","l","e">>, <<"n","a","m","e">>, <<"h","e","a","d","i","n","g">>}

\* title_patterns: the tag of each './/tag'
title_patterns ==
    <<<<"t","i","t","l","e">>, <<"T","i","t","l","e">>, <<"D","o","c","u","m","e","n","t","T","i","t","l","e">>, <<"b","o","o","k","_","t","i","t","l","e">>, <<"d","o","c","u","m","e","n","t","_","t","i","t","l","e">>,
      <<"d","o","c","_","t","i","t","l","e">>, <<"n","a","m","e">>, <<"N","a","m","e">>, <<"h","e","a","d","i","n","g">>, <<"H","e","a","d","i","n","g">>>>

container_tags == <<<<"b","o","o","k">>, <<"d","o","c","u","m","e","n","t">>, <<"a","r","t","i","c","l","e">>, <<"c","h","a","p","t","e","r">>, <<"s","e","c","t","i","o","n">>>>

\* x in list
in_list(x, list) == \E i \in 1..Len(list) : list[i] = x

\* text = get_text(elem).strip()
candidate_text(elem) == strip(get_text(<<elem>>))

\* if text and len(text) > 0 and len(text) < 500
acceptable(text) == text # <<>> /\ Len(text) > 0 /\ Len(text) < TitleLimit

\* "for elem in elems: if accept(elem): title_text = text; break"
first_text(elems, accept(_)) ==
    LET hits == SelectSeq(elems, accept)
    IN  IF hits = <<>> THEN <<>> ELSE candidate_text(hits[1])

\* the first result of per that is not None: "if title_text: break"
first_found(list, per(_)) ==
    LET found == SelectSeq(list, LAMBDA x : per(x) # <<>>)
    IN  IF found = <<>> THEN <<>> ELSE per(found[1])

\* Method 1 comparing the tag as it is written
method1_as_written(root) ==
    first_text(iter(root),
               LAMBDA elem :
                   /\ in_list(clean_tag(elem.tag), title_tags)
                   /\ acceptable(candidate_text(elem))
                   /\ lower(candidate_text(elem)) \notin placeholders)

\* Method 1: the elements of the tree with a title-like tag
method1(root) ==
    first_text(iter(root),
               LAMBDA elem :
                   /\ in_list(lower(clean_tag(elem.tag)), title_tags)
                   /\ acceptable(candidate_text(elem))
                   /\ lower(candidate_text(elem)) \notin placeholders)

\* Method 2 without "if not title_text"
method2_unguarded(root, text) ==
    LET usable(elem) == acceptable(candidate_text(elem))
        per(pattern) == first_text(findall_desc(root, pattern), usable)
        found == first_found(title_patterns, per)
    IN  IF found # <<>> THEN found ELSE text

\* Method 2: the common patterns
method2(root, text) ==
    LET usable(elem) == acceptable(candidate_text(elem))
        per(pattern) == first_text(findall_desc(root, pattern), usable)
    IN  IF text # <<>> THEN text ELSE first_found(title_patterns, per)

\* Method 3: titles in common document structures
method3(root, text) ==
    LET usable(child) ==
            /\ lower(clean_tag(child.tag)) \in {<<"t","i","t","l","e">>, <<"n","a","m","e">>}
            /\ acceptable(candidate_text(child))
        inside(elem) == first_text(iter(elem), usable)
        per(container_tag) ==
            first_found(SelectSeq(iter(root),
                                  LAMBDA elem : lower(clean_tag(elem.tag)) = container_tag),
                        inside)
    IN  IF text # <<>> THEN text ELSE first_found(container_tags, per)

\* Final fallback: the root tag name
root_tag_title(root, text) ==
    IF text # <<>> THEN text
    ELSE title(replace(replace(clean_tag(root.tag), "_", " "), "-", " "))

Method1 ==
    /\ pc = "idle"
    /\ tree # <<>>
    /\ title_text' = method1(tree[1])
    /\ pc' = "method2"
    /\ UNCHANGED <<config, processors, element_stats, calls, tree, last>>

Method2 ==
    /\ pc = "method2"
    /\ title_text' = method2(tree[1], title_text)
    /\ pc' = "method3"
    /\ UNCHANGED <<config, processors, element_stats, calls, tree, last>>

Method3 ==
    /\ pc = "method3"
    /\ title_text' = method3(tree[1], title_text)
    /\ pc' = "fallback"
    /\ UNCHANGED <<config, processors, element_stats, calls, tree, last>>

Fallback ==
    /\ pc = "fallback"
    /\ title_text' = root_tag_title(tree[1], title_text)
    /\ pc' = "titled"
    /\ UNCHANGED <<config, processors, element_stats, calls, tree, last>>

\* a text of n characters
Chars(n) == [i \in 1..n |-> "a"]

BookDoc == Node(<<"b","o","o","k">>, <<>>, <<Node(<<"t","i","t","l","e">>, <<"M","y"," ","B","o","o","k">>, <<>>)>>)
ReportDoc == Node(<<"r","e","p","o","r","t">>, <<>>, <<>>)
ChapterNameDoc ==
    Node(<<"d","o","c">>, <<>>, <<Node(<<"c","h","a","p","t","e","r">>, <<>>, <<Node(<<"n","a","m","e">>, <<"C","h","1">>, <<>>)>>)>>)
PlaceholderDoc == Node(<<"d","o","c">>, <<>>, <<Node(<<"T","i","t","l","e">>, <<"T","i","t","l","e">>, <<>>)>>)

TitleDocs ==
    { BookDoc,
      ReportDoc,
      ChapterNameDoc,
      PlaceholderDoc,
      Node(<<"r">>, <<>>, <<Node(<<"n","a","m","e">>, <<"N">>, <<>>), Node(<<"t","i","t","l","e">>, <<"T">>, <<>>)>>),
      Node(<<"r">>, <<>>, <<Node(<<"d","o","c","_","t","i","t","l","e">>, <<"D">>, <<>>)>>),
      Node(<<"r">>, <<>>, <<Node(<<"t","i","t","l","e">>, <<"T","i","t","l","e">>, <<>>), Node(<<"d","o","c","_","t","i","t","l","e">>, <<"D">>, <<>>)>>),
      Node(<<"r">>, <<>>, <<Node(<<"H","e","a","d","i","n","g">>, <<"H","d">>, <<>>), Node(<<"t","i","t","l","e">>, <<"t","i","t","l","e">>, <<>>),
                         Node(<<"T","i","t","l","e">>, <<" ">>, <<>>), Node(<<"n","a","m","e">>, <<"T">>, <<>>)>>),
      Node(<<"b","o","o","k">>, <<>>, <<Node(<<"T","I","T","L","E">>, <<"T","i","t","l","e">>, <<>>)>>),
      Node(<<"b","o","o","k">>, <<>>, <<Node(<<"T","I","T","L","E">>, <<"B","i","g">>, <<>>)>>),
      Node(<<"r">>, <<>>, <<Node(<<"a","r","t","i","c","l","e">>, <<>>, <<Node(<<"{","u","r","n",":","x","}","N","a","m","e">>, <<"H","E","A","D","I","N","G">>, <<>>)>>)>>),
      Node(<<"r">>, <<>>, <<Node(<<"H","e","a","d","i","n","g">>, <<"h","e","a","d","i","n","g">>, <<>>),
                         Node(<<"s","e","c","t","i","o","n">>, <<>>, <<Node(<<"n","a","m","e">>, <<"N","a","m","e">>, <<>>)>>)>>),
      Node(<<"r">>, <<>>, <<Node(<<"s","e","c","t","i","o","n">>, <<>>, <<Node(<<"N","A","M","E">>, <<"n","a","m","e">>, <<>>)>>),
                         Node(<<"c","h","a","p","t","e","r">>, <<>>, <<Node(<<"T","I","T","L","E">>, <<"t","i","t","l","e">>, <<>>)>>)>>),
      Node(<<"m","y","_","r","o","o","t","-","t","a","g">>, <<>>, <<>>),
      Node(<<"m","y","B","o","o","k">>, <<>>, <<Node(<<"t","i","t","l","e">>, <<" "," ">>, <<>>)>>),
      Node(<<"{","u","r","n",":","x","}","b","o","o","k">>, <<>>, <<Node(<<"{","u","r","n",":","x","}","t","i","t","l","e">>, <<"N","S">>, <<>>)>>),
      Node(<<"{","u","r","n",":","x","}","b","o","o","k">>, <<>>, <<Node(<<"{","u","r","n",":","x","}","T","I","T","L","E">>, <<"N","a","m","e">>, <<>>)>>),
      Node(<<"t","i","t","l","e">>, <<"R","o","o","t"," ","T","i","t","l","e">>, <<>>),
      Node(<<"s","e","c","t","i","o","n">>, <<>>, <<Node(<<"N","a","m","e">>, <<"n","a","m","e">>, <<>>)>>),
      Node(<<"r">>, <<>>, <<Node(<<"t","i","t","l","e">>, Chars(TitleLimit), <<>>), Node(<<"N","a","m","e">>, <<"S","h","o","r","t">>, <<>>)>>),
      Node(<<"r">>, <<>>, <<Node(<<"t","i","t","l","e">>, Chars(TitleLimit - 1), <<>>), Node(<<"N","a","m","e">>, <<"S","h","o","r","t">>, <<>>)>>),
      Node(<<"r">>, <<>>, <<Node(<<"d","o","c","_","t","i","t","l","e">>, Chars(TitleLimit), <<>>)>>),
      Node(<<"r">>, <<>>, <<Node(<<"h","e","a","d","i","n","g">>, <<" ","A"," ">>,
                              <<Elem(<<"b">>, <<>>, <<"B">>, <<>>, <<" ","C"," ">>)>>)>>) }

NextTitle ==
    \/ Parse(TitleDocs)
    \/ Method1
    \/ Method2
    \/ Method3
    \/ Fallback

SpecTitle == Init /\ [][NextTitle]_vars

----------------------------------------------------------------------------
(* get_text on elements with empty, blank and nested fragments *)

\* get_text(element) for None or the parsed root
GetText ==
    /\ \E element \in {<<>>, tree} :
          last' = [call |-> "get_text", element |-> element,
                   value |-> get_text(element)]
    /\ UNCHANGED <<config, processors, element_stats, calls, tree, pc, title_text>>

Fragments == {<<>>, <<" ">>, <<"B">>, <<" ","C"," ">>}

TextKids ==
    {<<>>}
    \cup {<<Elem(<<"b">>, <<>>, x, <<>>, t)>> : x \in Fragments, t \in Fragments}
    \cup { <<Elem(<<"b">>, <<>>, <<"B">>, <<>>, <<" ">>), Elem(<<"c">>, <<>>, <<" ">>, <<>>, <<"C">>)>>,
           <<Elem(<<"b">>, <<>>, <<>>, <<Elem(<<"g">>, <<>>, <<"G">>, <<>>, <<"H">>)>>, <<>>)>>,
           <<Elem(<<"b">>, <<>>, <<"B">>, <<Node(<<"g">>, <<"G">>, <<>>)>>, <<"C">>),
             Elem(<<"c">>, <<>>, <<"D">>, <<>>, <<>>)>> }

TextDocs == {Node(<<"a">>, x, ks) : x \in {<<>>, <<" ">>, <<"A">>, <<" ", "A", "\n">>}, ks \in TextKids}

NextText ==
    \/ Parse(TextDocs)
    \/ GetText

SpecText == Init /\ [][NextText]_vars

----------------------------------------------------------------------------
(* XMLToHTMLConverter: analyze_xml, convert_file and convert_directory on *)
(* files.  A file is its name and what ET.parse makes of it: a tree, a    *)
(* ParseError (malformed XML) or an OSError (a file that cannot be read). *)

XmlFile(name, root) == [name |-> name, kind |-> "xml", root |-> root]
MalformedFile(name, message) ==
    [name |-> name, kind |-> "malformed", message |-> message]
UnreadableFile(name, message) ==
    [name |-> name, kind |-> "unreadable", message |-> message]

\* len(str(value)) < 100
MetaLimit == 100

\* key.split('}')[-1] if '}' in key else key
clean_key(key) ==
    LET cuts == {i \in 1..Len(key) : key[i] = "}"}
    IN  IF cuts = {} THEN key
        ELSE SubSeq(key, (CHOOSE i \in cuts : \A j \in cuts : j <= i) + 1, Len(key))

\* convert_file, lines 199-208: the metadata of the root's attributes
document_meta(root) ==
    LET short == SelectSeq(root.attrib, LAMBDA kv : Len(kv[2]) < MetaLimit)
        meta_parts == [i \in 1..Len(short) |->
                          clean_key(short[i][1]) \o <<":"," ">> \o short[i][2]]
    IN  join(<<" ","|"," ">>, meta_parts)

toc_patterns == <<<<"T","O","C">>, <<"t","o","c">>, <<"t","a","b","l","e","_","o","f","_","c","o","n","t","e","n","t","s">>, <<"c","o","n","t","e","n","t","s">>>>

\* the slot is filled from the headings only
toc_html_generated(root, context) == Ok(<<>>)

\* convert_file, lines 214-232: the table of contents
toc_html(root, context) ==
    LET found == SelectSeq(toc_patterns, LAMBDA p : find_desc(root, p) # <<>>)
        toc_elem == find_desc(root, found[1])[1]
    IN  IF ~config.include_toc \/ found = <<>> THEN Ok(<<>>)
        ELSE Invoke(get_processor(clean_tag(toc_elem.tag)), toc_elem, context)

\* nav_patterns: the tag of './/tag', title_attr, id_attr, nav_type
nav_patterns ==
    << <<<<"C","h","a","p","t","e","r">>, <<"C","h","a","p","t","e","r","T","i","t","l","e">>, <<"N","u","m">>, <<"c","h","a","p","t","e","r">>>>,
       <<<<"S","e","c","t","i","o","n">>, <<"S","e","c","t","i","o","n","T","i","t","l","e">>, <<"N","u","m">>, <<"s","e","c","t","i","o","n">>>>,
       <<<<"A","r","t","i","c","l","e">>, <<"A","r","t","i","c","l","e","T","i","t","l","e">>, <<"N","u","m">>, <<"a","r","t","i","c","l","e">>>>,
       <<<<"P","a","r","t">>, <<"P","a","r","t","T","i","t","l","e">>, <<"N","u","m">>, <<"p","a","r","t">>>>,
       <<<<"c","h","a","p","t","e","r">>, <<"t","i","t","l","e">>, <<"i","d">>, <<"c","h","a","p","t","e","r">>>>,
       <<<<"s","e","c","t","i","o","n">>, <<"t","i","t","l","e">>, <<"i","d">>, <<"s","e","c","t","i","o","n">>>>,
       <<<<"a","r","t","i","c","l","e">>, <<"t","i","t","l","e">>, <<"i","d">>, <<"a","r","t","i","c","l","e">>>> >>

\* XMLToHTMLConverter._extract_navigation_items: one item of elem
navigation_item(elem, title_attr, id_attr, nav_type) ==
    LET other == SelectSeq(<<<<"t","i","t","l","e">>, <<"T","i","t","l","e">>, <<"n","a","m","e">>, <<"N","a","m","e">>>>,
                           LAMBDA p : find_desc(elem, p) # <<>>)
        title_elem ==
            IF find(elem, title_attr) # <<>> THEN find(elem, title_attr)
            ELSE IF other # <<>> THEN find_desc(elem, other[1])
            ELSE <<>>
        title_of == IF title_elem # <<>> THEN get_text(title_elem) ELSE <<>>
        text == IF title_of = <<>> THEN get_text(<<elem>>) ELSE title_of
        elem_id == get(elem, id_attr, <<>>)
    IN  IF text # <<>> /\ strip(text) # <<>>
        THEN <<"<a href=\"#">> \o nav_type \o <<"-">> \o elem_id
             \o <<"\" class=\"nav-link\">">> \o escape_html(strip(text)) \o <<"</a>">>
        ELSE <<>>

\* XMLToHTMLConverter._extract_navigation_items
_extract_navigation_items(root) ==
    LET of(p) ==
            LET elements == findall_desc(root, p[1])
            IN  concat([i \in 1..Len(elements) |->
                           navigation_item(elements[i], p[2], p[3], p[4])])
    IN  concat([k \in 1..Len(nav_patterns) |-> of(nav_patterns[k])])

\* convert_file, lines 237-248
navigation_html(root) ==
    LET navigation_items == _extract_navigation_items(root)
    IN  IF config.include_navigation /\ navigation_items # <<>>
        THEN <<"<div class=\"navigation\"><div style=\"font-weight: bold; margin-bottom: 10px; color: #2c3e50;\">Contents</div>">>
             \o navigation_items \o <<"</div>">>
        ELSE <<>>

\* HTML_TEMPLATE.format(...)
HTML_TEMPLATE(document_title, meta, toc, content, navigation) ==
    <<"<!DOCTYPE html><html lang=\"en\"><head><title>">>
    \o escape_html(document_title)
    \o <<"</title><style>", "{css}", "</style></head><body><div class=\"container\">",
         "<div class=\"header\"><div class=\"document-title\">">>
    \o escape_html(document_title)
    \o <<"</div><div class=\"document-meta\">">>
    \o (IF meta # <<>>
        THEN <<"<div class=\"document-meta\">">> \o escape_html(meta) \o <<"</div>">>
        ELSE <<>>)
    \o <<"</div></div>">>
    \o toc \o content \o <<"</div>">> \o navigation \o <<"</body></html>">>

\* the payload with the message as it is
parse_error_payload_raw(message) ==
    <<"<html><body><h1>Error parsing XML</h1><p>">> \o message
    \o <<"</p></body></html>">>

\* convert_file, line 135: the payload of a ParseError
parse_error_payload(message) ==
    <<"<html><body><h1>Error parsing XML</h1><p>">> \o escape_html(message)
    \o <<"</p></body></html>">>

\* what convert_file returns and does: written is whether it wrote output_path
Returned(result, written) ==
    [raised |-> result.raised, html |-> result.html, log |-> result.log,
     appended |-> result.appended, written |-> written]


\* convert_file, lines 137-195: the inferred title
document_title(root) ==
    root_tag_title(root, method3(root, method2(root, method1(root))))

\* convert_file, lines 250-292: the page is built and, with an output_path,
\* written; an exception of the TOC processor leaves convert_file
assemble(root, content, toc, output_path) ==
    IF toc.raised
    THEN Returned([raised |-> TRUE, html |-> <<>>, log |-> content.log \o toc.log,
                   appended |-> content.appended \o toc.appended], FALSE)
    ELSE Returned([raised |-> FALSE,
                   html |-> HTML_TEMPLATE(document_title(root), document_meta(root),
                                          toc.html, content.html,
                                          navigation_html(root)),
                   log |-> content.log \o toc.log,
                   appended |-> content.appended \o toc.appended],
                  output_path # "None")

\* convert_file, lines 210-232: content_html, then toc_html
render_document(root, context, output_path) ==
    Let1(process_element(root, context),
         LAMBDA content :
             IF content.raised THEN Returned(content, FALSE)
             ELSE Let1(toc_html(root, context),
                       LAMBDA toc : assemble(root, content, toc, output_path)))

\* XMLToHTMLConverter.convert_file
convert_file(file, output_path) ==
    IF file.kind = "unreadable" THEN Returned(Raise, FALSE)  \* OSError
    ELSE IF file.kind = "malformed"
    THEN Returned(Ok(parse_error_payload(file.message)), FALSE)
    ELSE render_document(Number(file.root, 1), CtxProcessor, output_path)

\* ElementProcessor.analyze_xml_structure: structure after traverse(elem, parent_tag);
\* visited is the trace of the calls of traverse, not a key of the summary
RECURSIVE traverse(_, _, _)
traverse(structure, elem, parent_tag) ==
    LET tag == clean_tag(elem.tag)
        \* defaultdict(set)[key].add(member)
        add(d, key, member) ==
            [k \in DOMAIN d \cup {key} |->
                IF k = key THEN (IF k \in DOMAIN d THEN d[k] ELSE {}) \cup {member}
                ELSE d[k]]
        RECURSIVE attrs(_, _)
        attrs(d, i) ==
            IF i > Len(elem.attrib) THEN d
            ELSE attrs(add(d, tag, elem.attrib[i][1]), i + 1)
        here ==
            [elements |-> structure.elements \cup {tag},
             hierarchy |-> IF parent_tag # <<>>
                           THEN add(structure.hierarchy, parent_tag, tag)
                           ELSE structure.hierarchy,
             attributes |-> attrs(structure.attributes, 1),
             text_elements |->
                 structure.text_elements
                 \cup (IF elem.text # <<>> /\ strip(elem.text) # <<>> THEN {tag} ELSE {}),
             container_elements |->
                 structure.container_elements
                 \cup (IF Len(elem.kids) > 0 THEN {tag} ELSE {}),
             visited |-> Append(structure.visited, elem.id)]
        RECURSIVE children(_, _)
        children(st, i) ==
            IF i > Len(elem.kids) THEN st
            ELSE children(traverse(st, elem.kids[i], tag), i + 1)
    IN  children(here, 1)

\* structure before traverse(root)
EmptyStructure ==
    [elements |-> {}, hierarchy |-> EmptyDict, attributes |-> EmptyDict,
     text_elements |-> {}, container_elements |-> {}, visited |-> <<>>]

\* the traversal started as if the root were its own child
analyze_xml_structure_rooted(root) ==
    traverse(EmptyStructure, root, clean_tag(root.tag))

analyze_xml_structure(root) == traverse(EmptyStructure, root, <<>>)

\* XMLToHTMLConverter.analyze_xml: "except Exception" covers both failures
analyze_xml(file) ==
    IF file.kind = "xml" THEN analyze_xml_structure(Number(file.root, 1))
    ELSE [error |-> file.message]

\* Path.with_suffix
with_suffix(name, suffix) ==
    LET dots == {i \in 1..Len(name) : name[i] = "."}
    IN  IF dots = {} THEN name \o suffix
        ELSE SubSeq(name, 1, (CHOOSE i \in dots : \A j \in dots : j <= i) - 1) \o suffix

\* the state of convert_directory's loop
Batch(converted, attempted, log, appended, written, failed) ==
    [converted |-> converted, attempted |-> attempted, log |-> log,
     appended |-> appended, written |-> written, failed |-> failed]

\* one file of the loop, recorded when its HTML file was written
convert_one_if_written(batch, xml_file, output_dir) ==
    LET html_path == output_dir \o <<"/">> \o with_suffix(xml_file.name, <<".","h","t","m","l">>)
        record(r) ==
            Batch(IF ~r.written THEN batch.converted
                  ELSE [n \in DOMAIN batch.converted \cup {xml_file.name} |->
                           IF n = xml_file.name THEN html_path ELSE batch.converted[n]],
                  Append(batch.attempted, xml_file.name),
                  batch.log \o r.log,
                  batch.appended \o r.appended,
                  batch.written \cup (IF r.written THEN {html_path} ELSE {}),
                  batch.failed \/ r.raised)
    IN  Let1(convert_file(xml_file, html_path), record)

\* convert_directory, lines 609-618: one file of the loop
convert_one(batch, xml_file, output_dir) ==
    LET html_path == output_dir \o <<"/">> \o with_suffix(xml_file.name, <<".","h","t","m","l">>)
        record(r) ==
            Batch(IF r.raised THEN batch.converted
                  ELSE [n \in DOMAIN batch.converted \cup {xml_file.name} |->
                           IF n = xml_file.name THEN html_path ELSE batch.converted[n]],
                  Append(batch.attempted, xml_file.name),
                  batch.log \o r.log,
                  batch.appended \o r.appended,
                  batch.written \cup (IF r.written THEN {html_path} ELSE {}),
                  batch.failed \/ r.raised)
    IN  Let1(convert_file(xml_file, html_path), record)

\* the loop with the try around it: the first exception ends it
RECURSIVE convert_until_error(_, _, _, _)
convert_until_error(batch, xml_files, i, output_dir) ==
    IF i > Len(xml_files) \/ batch.failed THEN batch
    ELSE convert_until_error(convert_one(batch, xml_files[i], output_dir),
                             xml_files, i + 1, output_dir)

\* convert_directory, lines 605-618: the loop over xml_files
RECURSIVE convert_each(_, _, _, _)
convert_each(batch, xml_files, i, output_dir) ==
    IF i > Len(xml_files) THEN batch
    ELSE convert_each(convert_one(batch, xml_files[i], output_dir),
                      xml_files, i + 1, output_dir)

\* convert_directory with the try around the loop
convert_directory_abort(xml_files, output_dir) ==
    convert_until_error(Batch(EmptyDict, <<>>, <<>>, <<>>, {}, FALSE), xml_files, 1,
                        output_dir)

\* XMLToHTMLConverter.convert_directory on the files rglob("*.xml") lists
convert_directory(xml_files, output_dir) ==
    convert_each(Batch(EmptyDict, <<>>, <<>>, <<>>, {}, FALSE), xml_files, 1, output_dir)

\* no tag was visited MaxVisits times
FewVisits == \A t \in DOMAIN element_stats : element_stats[t] < MaxVisits

\* converter.convert_file(xml_path, output_path)
ConvertFile(Files) ==
    /\ FewVisits
    /\ \E file \in Files, output_path \in {"None", "out.html"} :
          last' = [call |-> "convert_file", file |-> file, output_path |-> output_path,
                   value |-> convert_file(file, output_path)]
    /\ element_stats' = count_visits(element_stats, last'.value.log)
    /\ UNCHANGED <<config, processors, calls, tree, pc, title_text>>

\* converter.analyze_xml(xml_path)
AnalyzeXml(Files) ==
    /\ \E file \in Files :
          last' = [call |-> "analyze_xml", file |-> file, value |-> analyze_xml(file)]
    /\ UNCHANGED <<config, processors, element_stats, calls, tree, pc, title_text>>

\* converter.convert_directory(input_dir, output_dir) on a directory whose
\* XML files are listed in the order of Dirs
ConvertDirectory(Dirs) ==
    /\ FewVisits
    /\ \E xml_files \in Dirs :
          last' = [call |-> "convert_directory", xml_files |-> xml_files,
                   value |-> convert_directory(xml_files, <<"h","t","m","l">>)]
    /\ element_stats' = count_visits(element_stats, last'.value.log)
    /\ UNCHANGED <<config, processors, calls, tree, pc, title_text>>

LawDoc ==
    Node(<<"L","a","w">>, <<>>,
         <<Node(<<"T","O","C">>, <<>>, <<Node(<<"T","O","C","L","a","b","e","l">>, <<"C","o","n","t","e","n","t","s">>, <<>>)>>),
           Elem(<<"C","h","a","p","t","e","r">>, <<<<<<"N","u","m">>, <<"1">>>>>>, <<>>,
                <<Node(<<"C","h","a","p","t","e","r","T","i","t","l","e">>, <<"T","<","1",">">>, <<>>)>>, <<>>)>>)

BoxDoc == Elem(<<"B","o","x">>, <<<<<<"{","u","r","n",":","x","}","l","a","n","g">>, <<"e","n">>>>>>, X, <<>>, <<>>)

BoxFile == XmlFile(<<"a",".","x","m","l">>, BoxDoc)
LawFile == XmlFile(<<"b",".","l","a","w",".","x","m","l">>, LawDoc)
\* the parser's message holds a character html.escape rewrites
BadFile == MalformedFile(<<"c",".","x","m","l">>, <<"u","n","d","e","f","i","n","e","d"," ","e","n","t","i","t","y"," ","&","f","o","o",";",":"," ","l","i","n","e"," ","1",","," ","c","o","l","u","m","n"," ","3">>)
LockedFile == UnreadableFile(<<"d",".","x","m","l">>, <<"P","e","r","m","i","s","s","i","o","n"," ","d","e","n","i","e","d">>)

\* the lowercase naming convention
ManualDoc ==
    Node(<<"d","o","c">>, <<>>,
         <<Elem(<<"c","h","a","p","t","e","r">>, <<<<<<"i","d">>, <<"1">>>>>>, <<>>,
                <<Node(<<"t","i","t","l","e">>, <<"T">>, <<>>)>>, <<>>)>>)
ManualFile == XmlFile(<<"e",".","x","m","l">>, ManualDoc)

\* a table of contents below an element that is rendered by its text
CaptionDoc ==
    Node(<<"d","o","c">>, <<>>,
         <<Node(<<"C","a","p","t","i","o","n">>, <<"c">>, <<Node(<<"c","o","n","t","e","n","t","s">>, <<"k">>, <<>>)>>)>>)
CaptionFile == XmlFile(<<"g",".","x","m","l">>, CaptionDoc)

Files == {BoxFile, LawFile, ManualFile, CaptionFile, BadFile, LockedFile}

\* tags that come back at another depth, with other attributes and with
\* blank text
NestedDoc ==
    Elem(<<"a">>, <<<<<<"x">>, <<"1">>>>>>, <<>>,
         <<Elem(<<"b">>, <<<<<<"y">>, <<"2">>>>>>, <<"t">>, <<Node(<<"a">>, <<>>, <<>>)>>, <<>>),
           Elem(<<"b">>, <<<<<<"z">>, <<"3">>>>, <<<<"y">>, <<"4">>>>>>, <<" ">>, <<>>, <<>>),
           Node(<<"c">>, <<"u">>, <<>>)>>, <<>>)
NestedFile == XmlFile(<<"f",".","x","m","l">>, NestedDoc)

\* directories: the files rglob lists, in its order; a file that cannot be
\* converted comes first, in the middle or last
Dirs ==
    {<<>>, <<BoxFile>>, <<BoxFile, LawFile>>, <<LockedFile, LawFile>>,
     <<BadFile, BoxFile>>, <<LawFile, LockedFile>>,
     <<BoxFile, LockedFile, LawFile>>, <<LawFile, BadFile, BoxFile>>}

NextFiles ==
    \/ Register({<<"B","o","x">>}, {"None"})
    \/ ConvertFile(Files)
    \/ AnalyzeXml({BoxFile, BadFile, LockedFile, NestedFile})

SpecFiles == Init /\ [][NextFiles]_vars

NextDirectory ==
    \/ Register({<<"B","o","x">>}, {"None"})
    \/ ConvertDirectory(Dirs)

SpecDirectory == Init /\ [][NextDirectory]_vars

-----------------------------------------------------------------------------
(* Output plugins, XMLConverter and the command line                      *)

\* what a run finds outside the program: the importable packages, whether the
\* PDF library writes its file or raises, and the external Markdown converter
Environment(installed, pdf_written, md_converter) ==
    [installed |-> installed, pdf_written |-> pdf_written,
     md_converter |-> md_converter]

\* XMLConverter.__init__: the names registered in the plugin registry
registered_plugins == {"html", "pdf", "docx", "pptx", "markdown"}

\* PluginRegistry.get_plugin: <<>> is None
get_plugin(name) == IF name \in registered_plugins THEN <<name>> ELSE <<>>

\* check_dependencies of the five plugins
check_dependencies(plugin, env) ==
    CASE plugin = "html" -> TRUE
      [] plugin = "pdf" -> {"weasyprint", "pdfkit"} \cap env.installed # {}
      [] plugin = "docx" -> "docx" \in env.installed
      [] plugin = "pptx" -> "pptx" \in env.installed
      [] plugin = "markdown" -> TRUE

\* XMLToHTMLConverter._html_to_pdf
_html_to_pdf(env) ==
    IF {"weasyprint", "pdfkit"} \cap env.installed # {}
    THEN env.pdf_written  \* an exception of the library is caught: False
    ELSE FALSE

\* what a plugin's convert returns and leaves: the file it wrote at
\* output_path, and whether its temporary HTML file is still there
Converted_by(success, written, temp_left) ==
    [success |-> success, written |-> written, temp_left |-> temp_left]

\* HTMLPlugin.convert, after convert_file of its new converter returned r
html_plugin_convert(r) == Converted_by(~r.raised, r.written, FALSE)

\* PDFPlugin.convert removing its temporary file on every path
pdf_plugin_convert_finally(r, env) ==
    IF ~check_dependencies("pdf", env) THEN Converted_by(FALSE, FALSE, FALSE)
    ELSE IF r.raised THEN Converted_by(FALSE, FALSE, FALSE)
    ELSE IF _html_to_pdf(env) THEN Converted_by(TRUE, TRUE, FALSE)
    ELSE Converted_by(FALSE, FALSE, FALSE)

\* PDFPlugin.convert, after convert_file wrote the temporary file or raised
pdf_plugin_convert(r, env) ==
    IF ~check_dependencies("pdf", env) THEN Converted_by(FALSE, FALSE, FALSE)
    ELSE IF r.raised THEN Converted_by(FALSE, FALSE, FALSE)
    ELSE IF _html_to_pdf(env) THEN Converted_by(TRUE, TRUE, FALSE)
    ELSE Converted_by(FALSE, FALSE, TRUE)

\* the two plugins that start with convert_file of a new converter built from
\* the same config: HTML on output_path, PDF on a temporary file
through_html(plugin, file, output_path, env) ==
    Let1(convert_file(file, IF plugin = "html" THEN output_path ELSE "tmp.html"),
         LAMBDA r : IF plugin = "html" THEN html_plugin_convert(r)
                    ELSE pdf_plugin_convert(r, env))

\* DOCXPlugin.convert and PPTXPlugin.convert: not implemented
office_plugin_convert(plugin, env) == Converted_by(FALSE, FALSE, FALSE)

\* MarkdownPlugin.convert
markdown_plugin_convert(file, env) ==
    CASE env.md_converter = "absent" -> Converted_by(FALSE, FALSE, FALSE)
      [] env.md_converter = "raises" -> Converted_by(FALSE, FALSE, FALSE)
      [] OTHER -> Converted_by(TRUE, TRUE, FALSE)

\* plugin.convert(xml_path, output_path, intermediate_data)
plugin_convert(plugin, file, output_path, env) ==
    CASE plugin \in {"html", "pdf"} -> through_html(plugin, file, output_path, env)
      [] plugin \in {"docx", "pptx"} -> office_plugin_convert(plugin, env)
      [] plugin = "markdown" -> markdown_plugin_convert(file, env)

\* XMLConverter.convert: the success flag
convert(file, output_path, output_format, env) ==
    LET plugin == get_plugin(output_format)
    IN  IF plugin = <<>> THEN FALSE
        ELSE IF ~check_dependencies(plugin[1], env) THEN FALSE
        ELSE plugin_convert(plugin[1], file, output_path, env).success

\* the state of convert_to_multiple_formats' loop: results, and the formats
\* whose plugin's convert was called
Formats(results, called, skipped) ==
    [results |-> results, called |-> called, skipped |-> skipped]

\* convert_to_multiple_formats, lines 124-141: one format of the loop
convert_format(state, file, fmt, env) ==
    LET plugin == get_plugin(fmt)
        set(success) == [f \in DOMAIN state.results \cup {fmt} |->
                            IF f = fmt THEN success ELSE state.results[f]]
    IN  IF plugin = <<>> \/ ~check_dependencies(plugin[1], env)
        THEN Formats(set(FALSE), state.called, TRUE)
        ELSE Formats(set(plugin_convert(plugin[1], file, "out", env).success),
                     Append(state.called, fmt), state.skipped)

\* the loop ending at the first format that is skipped
RECURSIVE formats_until_skip(_, _, _, _, _)
formats_until_skip(state, file, output_formats, i, env) ==
    IF i > Len(output_formats) \/ state.skipped THEN state
    ELSE formats_until_skip(convert_format(state, file, output_formats[i], env),
                            file, output_formats, i + 1, env)

RECURSIVE each_format(_, _, _, _, _)
each_format(state, file, output_formats, i, env) ==
    IF i > Len(output_formats) THEN state
    ELSE each_format(convert_format(state, file, output_formats[i], env),
                     file, output_formats, i + 1, env)

convert_to_multiple_formats_break(file, output_formats, env) ==
    formats_until_skip(Formats([f \in {} |-> FALSE], <<>>, FALSE), file,
                       output_formats, 1, env)

\* XMLConverter.convert_to_multiple_formats
convert_to_multiple_formats(file, output_formats, env) ==
    each_format(Formats([f \in {} |-> FALSE], <<>>, FALSE), file, output_formats, 1, env)

\* the command line: input is a missing path, a file or a directory
Args(input, format, analyze) == [input |-> input, format |-> format, analyze |-> analyze]
MissingPath == [kind |-> "missing"]
Directory(xml_files) == [kind |-> "directory", xml_files |-> xml_files]

\* what main does: it returns an exit code or an exception leaves it
Exit(code) == [raised |-> FALSE, code |-> code]
Uncaught == [raised |-> TRUE, code |-> 1]

\* cli.main
main(args, env) ==
    IF args.input.kind = "missing" THEN Exit(1)
    \* line 144: the import at line 151 makes XMLToHTMLConverter a local name
    \* of main, unbound here (UnboundLocalError)
    ELSE IF args.format = "html" THEN Uncaught
    ELSE IF args.analyze
    THEN IF args.input.kind = "directory" THEN Exit(1) ELSE Exit(0)
    ELSE IF args.input.kind # "directory"
    THEN IF convert(args.input, "out", args.format, env) THEN Exit(0) ELSE Exit(1)
    \* a directory: the loop does not look at success
    ELSE Exit(0)

\* the converter of a plugin is new and built from the config:
\* its registry is the one of construction
NewConverter == processors = Constructed(config)

\* converter.convert_to_multiple_formats(xml_path, output_formats)
ConvertFormats(XmlFiles, FormatLists, Envs) ==
    /\ NewConverter
    /\ \E file \in XmlFiles, output_formats \in FormatLists, env \in Envs :
          last' = [call |-> "convert_to_multiple_formats", file |-> file,
                   output_formats |-> output_formats, env |-> env,
                   value |-> convert_to_multiple_formats(file, output_formats, env)]
    /\ UNCHANGED <<config, processors, element_stats, calls, tree, pc, title_text>>

\* plugin.convert(xml_path, output_path) of a registered plugin
PluginConvert(Plugins, XmlFiles, Envs) ==
    /\ NewConverter
    /\ \E plugin \in Plugins, file \in XmlFiles, env \in Envs :
          last' = [call |-> "plugin_convert", plugin |-> plugin, file |-> file,
                   env |-> env, value |-> plugin_convert(plugin, file, "out", env)]
    /\ UNCHANGED <<config, processors, element_stats, calls, tree, pc, title_text>>

\* main() in a new process: the config is ConverterConfig() with the keys of
\* the --config file set on it
Main(Inputs, OutputFormats, Envs) ==
    /\ last = NoCall
    /\ config = ConverterConfig(EmptyDict, config.strip_namespace)
    /\ \E input \in Inputs, format \in OutputFormats, analyze \in BOOLEAN, env \in Envs :
          LET args == Args(input, format, analyze)
          IN  last' = [call |-> "main", args |-> args, env |-> env,
                       value |-> main(args, env)]
    /\ UNCHANGED <<config, processors, element_stats, calls, tree, pc, title_text>>

Bare == Environment({}, FALSE, "absent")
WithWeasyprint == Environment({"weasyprint"}, TRUE, "works")
WithPdfkit == Environment({"pdfkit", "docx"}, FALSE, "raises")
Envs == {Bare, WithWeasyprint, WithPdfkit}

FormatNames == {"html", "pdf", "docx", "epub"}
\* lists of at most two formats, with repetitions, and some others
FormatLists ==
    {<<>>, <<"markdown">>} \cup {<<f>> : f \in FormatNames}
    \cup {<<f, g>> : f, g \in FormatNames}
    \cup {<<"epub", "html", "pdf">>, <<"pdf", "pptx", "html">>,
          <<"html", "docx", "markdown">>}

Inputs ==
    {MissingPath, BoxFile, BadFile, LockedFile,
     Directory(<<BoxFile>>), Directory(<<BoxFile, BadFile>>),
     Directory(<<LockedFile, BoxFile>>)}

NextFormats ==
    \/ ConvertFormats({BoxFile, BadFile}, FormatLists, Envs)
    \/ PluginConvert(registered_plugins, {BoxFile, BadFile, LockedFile}, Envs)
    \/ Main(Inputs, {"html", "pdf", "markdown", "epub"}, Envs)

SpecFormats == Init /\ [][NextFormats]_vars

-----------------------------------------------------------------------------
(* PluginRegistry: classes registered by name, instances made on demand   *)

\* the calls made on one registry
MaxCalls == 4

\* PluginRegistry.__init__ and the two dictionaries of a registry
PluginRegistry(plugins, instances) ==
    [_plugins |-> plugins, _plugin_instances |-> instances]

\* OutputPlugin.__init__: a new object; made_by, the call that made it, tells
\* the objects apart; self.config = config or {}
OutputPlugin(plugin_class, plugin_config, made_by) ==
    [class |-> plugin_class,
     config |-> IF plugin_config = "None" THEN "{}" ELSE plugin_config,
     made_by |-> made_by]

\* d[key] = value
setitem(d, key, value) ==
    [k \in DOMAIN d \cup {key} |-> IF k = key THEN value ELSE d[k]]

\* PluginRegistry.register: the registry after the call
PluginRegistry_register(registry, name, plugin_class) ==
    [registry EXCEPT !._plugins = setitem(registry._plugins, name, plugin_class)]

\* get_plugin making a new instance at every call
get_plugin_uncached(registry, name, plugin_config, nth) ==
    IF name \notin DOMAIN registry._plugins
    THEN [registry |-> registry, returned |-> <<>>]
    ELSE [registry |->
              [registry EXCEPT !._plugin_instances =
                  setitem(registry._plugin_instances, name,
                          OutputPlugin(registry._plugins[name], plugin_config, nth))],
          returned |-> <<OutputPlugin(registry._plugins[name], plugin_config, nth)>>]

\* PluginRegistry.get_plugin as the nth call on the registry: the registry
\* after the call and what the call returns, <<>> for None
PluginRegistry_get_plugin(registry, name, plugin_config, nth) ==
    IF name \notin DOMAIN registry._plugins
    THEN [registry |-> registry, returned |-> <<>>]
    ELSE IF name \notin DOMAIN registry._plugin_instances
    THEN [registry |->
              [registry EXCEPT !._plugin_instances =
                  setitem(registry._plugin_instances, name,
                          OutputPlugin(registry._plugins[name], plugin_config, nth))],
          returned |-> <<OutputPlugin(registry._plugins[name], plugin_config, nth)>>]
    ELSE [registry |-> registry, returned |-> <<registry._plugin_instances[name]>>]

\* the calls of the registry are recorded with the registry they leave
OnRegistry == last.call \in {"register", "get_plugin"}
TheRegistry == IF OnRegistry THEN last.registry ELSE PluginRegistry(EmptyDict, EmptyDict)
History == IF OnRegistry THEN last.history ELSE <<>>

\* registry.register(name, plugin_class) on a new registry or after the
\* calls made on it so far
RegisterPlugin(Names, Classes) ==
    /\ last = NoCall \/ OnRegistry
    /\ Len(History) < MaxCalls
    /\ \E name \in Names, plugin_class \in Classes :
          last' = [call |-> "register", name |-> name, plugin_class |-> plugin_class,
                   registry |-> PluginRegistry_register(TheRegistry, name, plugin_class),
                   history |-> Append(History,
                                      [call |-> "register", name |-> name,
                                       plugin_class |-> plugin_class])]
    /\ UNCHANGED <<config, processors, element_stats, calls, tree, pc, title_text>>

\* registry.get_plugin(name, config)
GetPlugin(Names, Configs) ==
    /\ last = NoCall \/ OnRegistry
    /\ Len(History) < MaxCalls
    /\ \E name \in Names, conf \in Configs :
          LET got == PluginRegistry_get_plugin(TheRegistry, name, conf, Len(History) + 1)
          IN  last' = [call |-> "get_plugin", name |-> name, config |-> conf,
                       registry |-> got.registry,
                       history |-> Append(History,
                                          [call |-> "get_plugin", name |-> name,
                                           config |-> conf, returned |-> got.returned])]
    /\ UNCHANGED <<config, processors, element_stats, calls, tree, pc, title_text>>

PluginNames == {"html", "pdf"}
PluginClasses == {"HTMLPlugin", "PDFPlugin"}
PluginConfigs == {"None", "a"}

NextRegistry ==
    \/ RegisterPlugin(PluginNames, PluginClasses)
    \/ GetPlugin(PluginNames, PluginConfigs)

SpecRegistry == Init /\ [][NextRegistry]_vars

----------------------------------------------------------------------------
(* Properties *)

\* the last call was process_element on the parsed root
Rendered == last.call = "process_element"

\* the context the processor of the root was called with
RenderContext == IF last.context = CtxNone THEN CtxEmpty ELSE last.context

\* the root's normalized tag is not a key of the registry
RootUnregistered == tree # <<>> /\ clean_tag(tree[1].tag) \notin DOMAIN processors

\* the names of the functions a registry can hold
Callables ==
    {get_all_processors[t] : t \in DOMAIN get_all_processors}
    \cup {"my_custom_processor", "_default_processor"}

(* C1: in every registry state reached by register_processor calls,       *)
(* get_processor returns for every tag a callable processor: the          *)
(* registered one when the tag is a key, the default processor otherwise; *)
(* and process_element on an element whose normalized tag is unregistered *)
(* returns markup and does not raise.                                     *)
ResolveNeverFails ==
    /\ last.call = "get_processor" =>
          /\ last.value \in Callables
          /\ last.value = IF last.element_name \in DOMAIN processors
                          THEN processors[last.element_name]
                          ELSE "_default_processor"
    /\ (Rendered /\ RootUnregistered) =>
          /\ ~last.value.raised
          /\ last.value.html # <<>>

ResolveNeverFailsWitness ==
    /\ Rendered
    /\ RootUnregistered
    /\ calls # <<>>
    /\ tree[1].kids # <<>>
    /\ ~last.value.raised
    /\ Len(last.value.html) > 3

(* C5: get_processor(tag) is the processor of the most recent             *)
(* register_processor call for exactly that tag; a tag no call named      *)
(* resolves as it did after construction, where an entry of               *)
(* config.element_processors wins over the built-in default of its tag.   *)
LastRegistrationWins ==
    \A t \in LookupTags \cup DOMAIN processors :
        LET hits == {i \in 1..Len(calls) : calls[i][1] = t}
        IN  get_processor(t) =
                IF hits # {}
                THEN calls[CHOOSE i \in hits : \A j \in hits : j <= i][2]
                ELSE IF t \in DOMAIN config.element_processors
                THEN config.element_processors[t]
                ELSE IF t \in DOMAIN get_all_processors
                THEN get_all_processors[t]
                ELSE "_default_processor"

LastRegistrationWinsWitness ==
    /\ <<"S","e","n","t","e","n","c","e">> \in DOMAIN config.element_processors
    /\ config.element_processors[<<"S","e","n","t","e","n","c","e">>] # get_all_processors[<<"S","e","n","t","e","n","c","e">>]
    /\ Len(calls) = 2
    /\ calls[1][1] = calls[2][1]
    /\ calls[1][2] # calls[2][2]
    /\ get_processor(calls[2][1]) = calls[2][2]
    /\ get_processor(<<"S","e","n","t","e","n","c","e">>) = config.element_processors[<<"S","e","n","t","e","n","c","e">>]

\* the keyword rules (1..4) a tag matches, and the generic rule 5
Matches(tag) ==
    {r \in 1..5 :
        CASE r = 1 -> contains(tag, <<"T","i","t","l","e">>) \/ contains(tag, <<"C","a","p","t","i","o","n">>)
          [] r = 2 -> contains(tag, <<"S","e","n","t","e","n","c","e">>) \/ contains(tag, <<"T","e","x","t">>)
          [] r = 3 -> contains(tag, <<"I","t","e","m">>) \/ contains(tag, <<"L","i","s","t">>)
          [] r = 4 -> contains(tag, <<"T","a","b","l","e">>)
          [] OTHER -> TRUE}

\* the lowest-numbered rule of a set of rules
Lowest(rules) == CHOOSE r \in rules : \A q \in rules : r <= q

\* the markup of each rule for an element, its children dispatched with ctx
RuleMarkup(rule, element, ctx) ==
    LET tag == clean_tag(element.tag)
        class(open) == <<open>> \o lower(tag) \o <<"\">">>
        text == escape_html(get_text(<<element>>))
        kid(k) == Invoke(get_processor(clean_tag(k.tag)), k, ctx).html
    IN  CASE rule = 1 -> class("<div class=\"") \o text \o <<"</div>">>
          [] rule = 2 -> class("<span class=\"") \o text \o <<"</span>">>
          [] rule = 3 -> class("<li class=\"") \o text \o <<"</li>">>
          [] rule = 4 -> _process_table_like(element).html
          [] OTHER -> class("<div class=\"")
                      \o concat([i \in 1..Len(element.kids) |-> kid(element.kids[i])])
                      \o <<"</div>">>

\* the number of occurrences of sub in s
Occurrences(s, sub) ==
    Cardinality({i \in 0..(Len(s) - Len(sub)) : SubSeq(s, i + 1, i + Len(sub)) = sub})

\* every node of the tree is unregistered and matches no keyword rule
UnknownContainers(e) ==
    \A i \in 1..Len(iter(e)) :
        /\ clean_tag(iter(e)[i].tag) \notin DOMAIN processors
        /\ Matches(clean_tag(iter(e)[i].tag)) = {5}

(* C2: an unregistered element whose tag matches no keyword rule renders  *)
(* as exactly one div whose class is the lowercased tag and whose body is *)
(* the markup of its direct children, each rendered by the processor      *)
(* resolved for its tag, in document order and without a separator; so a  *)
(* tree of unknown containers renders one div for every node of the tree. *)
UnknownContainerRendersChildren ==
    (/\ Rendered
     /\ RootUnregistered
     /\ Matches(clean_tag(tree[1].tag)) = {5}) =>
        /\ ~last.value.raised
        /\ last.value.html = RuleMarkup(5, tree[1], RenderContext)
        /\ UnknownContainers(tree[1]) =>
              /\ Occurrences(last.value.html, <<"<div class=\"">>) = Size(tree[1])
              /\ \A i \in 1..Len(iter(tree[1])) :
                    contains(last.value.html,
                             <<"<div class=\"">>
                             \o lower(clean_tag(iter(tree[1])[i].tag)) \o <<"\">">>)

UnknownContainerRendersChildrenWitness ==
    /\ Rendered
    /\ RootUnregistered
    /\ UnknownContainers(tree[1])
    /\ \E i \in 1..Len(tree[1].kids) : tree[1].kids[i].kids # <<>>
    /\ Occurrences(last.value.html, <<"<div class=\"">>) = Size(tree[1])
    /\ Size(tree[1]) >= 4

(* C3: the default processor renders an unregistered element by the       *)
(* lowest-numbered rule its tag matches (1 Title/Caption: div of text,    *)
(* 2 Sentence/Text: span, 3 Item/List: li, 4 Table: table, 5: div of      *)
(* children); ItemTitle is rendered by rule 1, never as an li.            *)
FirstMatchingRule ==
    (Rendered /\ RootUnregistered) =>
        LET tag == clean_tag(tree[1].tag)
        IN  /\ last.value.html = RuleMarkup(Lowest(Matches(tag)), tree[1], RenderContext)
            /\ 1 \in Matches(tag) => Head(last.value.html) = "<div class=\""

FirstMatchingRuleWitness ==
    /\ Rendered
    /\ RootUnregistered
    /\ tree[1].tag = <<"I","t","e","m","T","i","t","l","e">>
    /\ {1, 3} \subseteq Matches(clean_tag(tree[1].tag))
    /\ last.value.html = <<"<div class=\"">> \o <<"i","t","e","m","t","i","t","l","e">> \o <<"\">", "X", "</div>">>

(* C4: the default processor matches its keywords without regard to       *)
(* letter case: an unregistered element renders the same markup under any *)
(* unregistered tag that differs from its own only in letter case (the    *)
(* class, the lowercased tag, is the same, so only the rule can differ).  *)
CaseInsensitiveKeywords ==
    (Rendered /\ RootUnregistered) =>
        \A u \in DefaultTags :
            (/\ lower(u) = lower(tree[1].tag)
             /\ clean_tag(u) \notin DOMAIN processors) =>
                process_element([tree[1] EXCEPT !.tag = u], last.context).html
                    = last.value.html

\* the opening tokens of the markup that process_subitem1 and
\* process_article build in place for a Subitem2 and a Style
InlineOpen(tag) ==
    IF tag = <<"S","u","b","i","t","e","m","2">>
    THEN "<div class=\"subitem2\" style=\"margin: 5px 0; padding-left: 20px;\">"
    ELSE "<div class=\"style\" style=\"margin: 10px 0; padding: 10px; background: #e8f5e9; border-left: 3px solid #4caf50; border-radius: 3px;\">"

\* a tag whose registered processor is not of the built-in library
Overridden(tag) ==
    /\ tag \in DOMAIN processors
    /\ tag \notin DOMAIN get_all_processors
       \/ processors[tag] # get_all_processors[tag]

(* C6: overrides propagate through the whole tree: when the document is   *)
(* rendered with the converter's context and an override is registered    *)
(* for Subitem2 or Style, the markup holds no Subitem2 or Style block     *)
(* built in place by a built-in processor.                                *)
OverridesPropagate ==
    (Rendered /\ last.context = CtxProcessor) =>
        \A t \in OverrideTags :
            Overridden(t) => ~contains(last.value.html, <<InlineOpen(t)>>)

(* C7: a table cell (TableColumn, or an Item's Column) without a direct   *)
(* Sentence child whose only child element has the text "X" is rendered   *)
(* with the text "X" in its markup, whatever the tag of that child.       *)
CellKeepsNestedText ==
    LET root == tree[1]
        cells == IF root.tag = <<"T","a","b","l","e","S","t","r","u","c","t">>
                 THEN findall_desc(root, <<"T","a","b","l","e","C","o","l","u","m","n">>)
                 ELSE findall_desc(root, <<"C","o","l","u","m","n">>)
    IN  (/\ Rendered
         /\ root.tag \in {<<"T","a","b","l","e","S","t","r","u","c","t">>, <<"I","t","e","m">>}
         /\ get_processor(clean_tag(root.tag)) = get_all_processors[root.tag]) =>
            \A i \in 1..Len(cells) :
                (/\ findall(cells[i], <<"S","e","n","t","e","n","c","e">>) = <<>>
                 /\ Len(cells[i].kids) = 1
                 /\ cells[i].kids[1].text = X) =>
                    contains(last.value.html, X)

\* the element of the tree with that identity
ById(e, id) == CHOOSE d \in {iter(e)[i] : i \in 1..Len(iter(e))} : d.id = id

\* the identities of the sentences of a paragraph: ParagraphSentence/Sentence
\* and the direct Sentence children
SentenceIds(p) ==
    {s.id : s \in {k \in {p.kids[i] : i \in 1..Len(p.kids)} : k.tag = <<"S","e","n","t","e","n","c","e">>}}
    \cup UNION {{ps.kids[j].id : j \in {j \in 1..Len(ps.kids) : ps.kids[j].tag = <<"S","e","n","t","e","n","c","e">>}}
                  : ps \in {k \in {p.kids[i] : i \in 1..Len(p.kids)} :
                               k.tag = <<"P","a","r","a","g","r","a","p","h","S","e","n","t","e","n","c","e">>}}

(* C8: the markup of a Paragraph holds every Sentence that is reachable   *)
(* as ParagraphSentence/Sentence or is a direct child exactly once: the   *)
(* markup of a sentence occurs as often as there are sentences with that  *)
(* markup, and with the converter's context each of these sentences is    *)
(* dispatched exactly once.                                               *)
SentenceRenderedOnce ==
    (/\ Rendered
     /\ tree[1].tag = <<"P","a","r","a","g","r","a","p","h">>
     /\ get_processor(clean_tag(tree[1].tag)) = "process_paragraph") =>
        LET ids == SentenceIds(tree[1])
            markup(id) == render(ById(tree[1], id), last.context, "process_sentence").html
        IN  /\ ~last.value.raised
            /\ \A id \in ids :
                  /\ Occurrences(last.value.html, markup(id))
                        = Cardinality({j \in ids : markup(j) = markup(id)})
                  /\ last.context = CtxProcessor =>
                        Cardinality({i \in 1..Len(last.value.log) :
                                        last.value.log[i] = <<<<"S","e","n","t","e","n","c","e">>, id>>}) = 1

SentenceRenderedOnceWitness ==
    /\ Rendered
    /\ tree[1].tag = <<"P","a","r","a","g","r","a","p","h">>
    /\ get_processor(clean_tag(tree[1].tag)) = "process_paragraph"
    /\ last.context = CtxProcessor
    /\ tree[1].kids = <<Number(ParagraphSentence(<<A>>), 2), Number(Node(<<"S","e","n","t","e","n","c","e">>, A, <<>>), 4)>>
    /\ Occurrences(last.value.html, <<SentenceOpen, "A", "</span>">>) = 2

(* C9: a Sentence without Ruby and Sub children whose extracted text is   *)
(* empty or only whitespace renders as one span of class sentence that    *)
(* holds exactly one non-breaking space.                                  *)
EmptySentenceIsNBSP ==
    (/\ Rendered
     /\ tree[1].tag = <<"S","e","n","t","e","n","c","e">>
     /\ get_processor(clean_tag(tree[1].tag)) = "process_sentence"
     /\ findall(tree[1], <<"R","u","b","y">>) = <<>>
     /\ findall(tree[1], <<"S","u","b">>) = <<>>
     /\ \A i \in 1..Len(get_text(tree)) : IsSpace(get_text(tree)[i])) =>
        /\ ~last.value.raised
        /\ last.value.html = <<SentenceOpen, NBSP, "</span>">>

EmptySentenceIsNBSPWitness ==
    /\ Rendered
    /\ tree[1].tag = <<"S","e","n","t","e","n","c","e">>
    /\ get_processor(clean_tag(tree[1].tag)) = "process_sentence"
    /\ tree[1].kids # <<>>
    /\ get_text(tree) = <<" ">>
    /\ last.value.html = <<SentenceOpen, NBSP, "</span>">>

\* the nodes of a tree; elements are numbered in document order
Nodes(e) == {iter(e)[i] : i \in 1..Len(iter(e))}
Earliest(S) == CHOOSE d \in S : \A e \in S : d.id <= e.id
Least(K) == CHOOSE k \in K : \A j \in K : k <= j

\* the candidates of each tier of the title inference
Usable(d) == candidate_text(d) # <<>> /\ Len(candidate_text(d)) < TitleLimit
Tier1(root) ==
    {d \in Nodes(root) :
        /\ lower(clean_tag(d.tag)) \in {title_tags[i] : i \in 1..Len(title_tags)}
        /\ Usable(d)
        /\ lower(candidate_text(d)) \notin placeholders}
Tier2(root, k) ==
    {d \in Nodes(root) \ {root} : d.tag = title_patterns[k] /\ Usable(d)}
Tier3Containers(root, k) ==
    {c \in Nodes(root) : lower(clean_tag(c.tag)) = container_tags[k]}
Tier3(c) ==
    {d \in Nodes(c) : lower(clean_tag(d.tag)) \in {<<"t","i","t","l","e">>, <<"n","a","m","e">>} /\ Usable(d)}

\* the title of each tier, <<>> when the tier has no candidate
Tier1Title(root) ==
    IF Tier1(root) = {} THEN <<>> ELSE candidate_text(Earliest(Tier1(root)))
Tier2Title(root) ==
    LET K == {k \in 1..Len(title_patterns) : Tier2(root, k) # {}}
    IN  IF K = {} THEN <<>> ELSE candidate_text(Earliest(Tier2(root, Least(K))))
Tier3Title(root) ==
    LET with(k) == {c \in Tier3Containers(root, k) : Tier3(c) # {}}
        K == {k \in 1..Len(container_tags) : with(k) # {}}
    IN  IF K = {} THEN <<>>
        ELSE candidate_text(Earliest(Tier3(Earliest(with(Least(K))))))
RootTagTitle(root) ==
    title(replace(replace(clean_tag(root.tag), "_", " "), "-", " "))

\* the first of the titles that is not <<>>
FirstOf(titles) ==
    LET K == {k \in 1..Len(titles) : titles[k] # <<>>}
    IN  IF K = {} THEN <<>> ELSE titles[Least(K)]

(* C10: the inferred title is the candidate of the first tier that has    *)
(* one, in the order tier 1 (scan of the tree, first candidate in         *)
(* document order), tier 2 (path patterns), tier 3 (containers); a later  *)
(* tier changes nothing when an earlier one found a title; without any    *)
(* candidate the title is the cleaned root tag with '_' and '-' replaced  *)
(* by spaces, title-cased: <book><title>My Book</title></book> gives      *)
(* "My Book" and <report/> gives "Report".                                *)
TitleFromFirstTier ==
    LET root == tree[1]
        t1 == Tier1Title(root)
        t2 == Tier2Title(root)
        t3 == Tier3Title(root)
    IN  /\ pc = "method2" => title_text = t1
        /\ pc = "method3" => title_text = FirstOf(<<t1, t2>>)
        /\ pc = "fallback" => title_text = FirstOf(<<t1, t2, t3>>)
        /\ pc = "titled" =>
              /\ title_text = FirstOf(<<t1, t2, t3, RootTagTitle(root)>>)
              /\ root = Number(BookDoc, 1) => title_text = <<"M","y"," ","B","o","o","k">>
              /\ root = Number(ReportDoc, 1) => title_text = <<"R","e","p","o","r","t">>

TitleFromFirstTierWitness ==
    /\ pc = "titled"
    /\ Tier1Title(tree[1]) = <<>>
    /\ Tier2Title(tree[1]) = <<>>
    /\ Tier3Title(tree[1]) # <<>>
    /\ Cardinality({k \in 1..Len(container_tags) : Tier3Containers(tree[1], k) # {}}) = 2
    /\ title_text = <<"t","i","t","l","e">>

(* C11: tier 2 of the title inference applies the guard of tier 1: when   *)
(* tier 1 found nothing, the title after tier 2 is never (without regard  *)
(* to letter case) one of the bare words title, name, heading; so         *)
(* <doc><Title>Title</Title></doc> does not get "Title" from tier 2.      *)
Tier2RejectsPlaceholders ==
    (pc = "method3" /\ Tier1Title(tree[1]) = <<>>) =>
        /\ lower(title_text) \notin placeholders
        /\ tree[1] = Number(PlaceholderDoc, 1) => title_text # <<"T","i","t","l","e">>

(* C12, as amended: for <doc><chapter><name>Ch1</name></chapter></doc>    *)
(* it is tier 1, the scan of the whole tree for title-like tags (name is  *)
(* one of them), that produces the title "Ch1"; tiers 2 and 3 and the     *)
(* fallback leave it unchanged.                                           *)
ChapterNameFromTier1 ==
    tree = <<Number(ChapterNameDoc, 1)>> =>
        /\ Tier1Title(tree[1]) = <<"C","h","1">>
        /\ pc \in {"method2", "method3", "fallback", "titled"} => title_text = <<"C","h","1">>

ChapterNameFromTier1Witness ==
    /\ tree = <<Number(ChapterNameDoc, 1)>>
    /\ pc = "method2"
    /\ title_text = <<"C","h","1">>

(* C12, as stated: for <doc><chapter><name>Ch1</name></chapter></doc>     *)
(* tiers 1 and 2 find no candidate and tier 3 produces the title "Ch1".   *)
ChapterNameFromTier3 ==
    tree = <<Number(ChapterNameDoc, 1)>> =>
        /\ pc \in {"method2", "method3"} => title_text = <<>>
        /\ pc \in {"fallback", "titled"} => title_text = <<"C","h","1">>

\* the trimmed fragments of an element that are not empty: its text, then
\* for each direct child its text and its tail
TrimmedFragments(e) ==
    LET of(x) == IF x = <<>> \/ strip(x) = <<>> THEN <<>> ELSE <<strip(x)>>
    IN  of(e.text)
        \o concat([i \in 1..Len(e.kids) |-> of(e.kids[i].text) \o of(e.kids[i].tail)])

(* C20: get_text returns the empty string for an absent element and       *)
(* otherwise the non-empty trimmed fragments (own text, then each direct  *)
(* child's text and tail) joined by one space: the result never begins or *)
(* ends with a space, never holds two spaces in a row, and is empty for   *)
(* an element with only whitespace text.                                  *)
GetTextJoinsFragments ==
    last.call = "get_text" =>
        IF last.element = <<>> THEN last.value = <<>>
        ELSE /\ last.value = join(<<" ">>, TrimmedFragments(last.element[1]))
             /\ last.value # <<>> =>
                   /\ Head(last.value) # " "
                   /\ last.value[Len(last.value)] # " "
             /\ ~contains(last.value, <<" ", " ">>)

\* contexts that process_element treats alike: None becomes {}
EquivalentContexts(a, b) == a = b \/ {a, b} = {CtxNone, CtxEmpty}

\* a step that is a call of process_element on the parsed root
RenderStep == tree # <<>> /\ last'.call = "process_element" /\ element_stats' # element_stats

(* C13: rendering is idempotent: a call of process_element that follows a *)
(* call on the same element with the same registry and an equivalent     *)
(* context returns the markup of the first call, whatever the visit      *)
(* counters are.                                                          *)
RenderingIsIdempotent ==
    [][(/\ RenderStep
        /\ last.call = "process_element"
        /\ EquivalentContexts(last.context, last'.context)) =>
            /\ last'.value.raised = last.value.raised
            /\ last'.value.html = last.value.html]_vars

RenderingIsIdempotentWitness ==
    /\ Rendered
    /\ visits(clean_tag(tree[1].tag)) = 2
    /\ tree[1].tag = <<"A","p","p","d","x","T","a","b","l","e">>
    /\ last.value.appended # <<>>
    /\ Len(last.value.html) > 5

(* C14: rendering leaves the input tree and the registry unchanged: a     *)
(* call of process_element changes no node of the tree (also when         *)
(* AppdxTable wraps a bare Table in a new TableStruct) and no entry of    *)
(* the tag -> processor map; only the visit counters change.              *)
RenderingLeavesInputs ==
    [][RenderStep =>
          /\ tree' = tree
          /\ processors' = processors
          /\ config' = config]_vars

RenderingLeavesInputsWitness ==
    /\ Rendered
    /\ tree[1].tag = <<"A","p","p","d","x","T","a","b","l","e">>
    /\ get_processor(clean_tag(tree[1].tag)) = "process_appdx_table"
    /\ find(tree[1], <<"T","a","b","l","e","S","t","r","u","c","t">>) = <<>>
    /\ find(tree[1], <<"T","a","b","l","e">>) # <<>>
    /\ last.value.appended = <<find(tree[1], <<"T","a","b","l","e">>)[1].id>>
    /\ contains(last.value.html, X)


\* the call that just returned is convert_file on a file of this kind
Converted(kind) == last.call = "convert_file" /\ last.file.kind = kind

(* C15: no state is carried across conversions: after a convert_file call *)
(* on a well-formed document has returned, the element statistics of the  *)
(* converter count the elements of that document only, whatever was       *)
(* converted before on the same converter.                                *)
StatisticsCountOneDocument ==
    (Converted("xml") /\ ~last.value.raised) =>
        element_stats = count_visits([t \in {} |-> 0], last.value.log)

\* the character references html.escape writes
Reference(c) ==
    CASE c = "&" -> "&amp;"
      [] c = "<" -> "&lt;"
      [] c = ">" -> "&gt;"
      [] c = "\"" -> "&quot;"
      [] c = "'" -> "&#x27;"
      [] OTHER -> c

(* C16: a parse failure is a value, never an exception: for malformed XML *)
(* convert_file raises nothing, writes no output file and returns the     *)
(* error page with the parser's message escaped; analyze_xml returns a    *)
(* summary whose only key is error, holding the message.                  *)
ParseFailureIsAValue ==
    /\ Converted("malformed") =>
          /\ ~last.value.raised
          /\ ~last.value.written
          /\ last.value.html =
                <<"<html><body><h1>Error parsing XML</h1><p>">>
                \o [i \in 1..Len(last.file.message) |-> Reference(last.file.message[i])]
                \o <<"</p></body></html>">>
    /\ (last.call = "analyze_xml" /\ last.file.kind = "malformed") =>
          /\ DOMAIN last.value = {"error"}
          /\ last.value.error = last.file.message

ParseFailureIsAValueWitness ==
    /\ Converted("malformed")
    /\ last.output_path = "out.html"
    /\ \E i \in 1..Len(last.file.message) : last.file.message[i] = "&"
    /\ \E i \in 1..Len(last.value.html) : last.value.html[i] = "&amp;"

\* where convert_directory puts the HTML of the i-th file
HtmlPath(xml_files, i) == <<"h","t","m","l","/">> \o with_suffix(xml_files[i].name, <<".","h","t","m","l">>)

\* converting the i-th file raises
Fails(xml_files, i) == convert_file(xml_files[i], HtmlPath(xml_files, i)).raised

(* C17: a file whose conversion raises does not abort convert_directory:  *)
(* in every order of the files and for every set of failing files, each   *)
(* file of the directory is attempted, and the returned mapping holds     *)
(* exactly the files whose conversion did not raise, each with its HTML   *)
(* path.                                                                  *)
BatchSurvivesFailures ==
    last.call = "convert_directory" =>
        LET xml_files == last.xml_files
            converted == last.value.converted
        IN  /\ last.value.attempted = [i \in 1..Len(xml_files) |-> xml_files[i].name]
            /\ \A i \in 1..Len(xml_files) :
                  IF Fails(xml_files, i)
                  THEN xml_files[i].name \notin DOMAIN converted
                  ELSE /\ xml_files[i].name \in DOMAIN converted
                       /\ converted[xml_files[i].name] = HtmlPath(xml_files, i)

BatchSurvivesFailuresWitness ==
    /\ last.call = "convert_directory"
    /\ Len(last.xml_files) = 3
    /\ Fails(last.xml_files, 1)
    /\ last.xml_files[1].kind = "xml"
    /\ Fails(last.xml_files, 2)
    /\ last.xml_files[2].kind = "unreadable"
    /\ last.xml_files[3].name \in DOMAIN last.value.converted
    /\ <<"h","t","m","l","/","b",".","l","a","w",".","h","t","m","l">> \in last.value.written

\* the conversion main was asked for succeeded: every XML file of the input
\* is well-formed and was converted to the format
Succeeded(args, env) ==
    LET done(file) ==
            /\ file.kind = "xml"
            /\ IF args.format = "html" THEN ~convert_file(file, "out.html").raised
               ELSE convert(file, "out", args.format, env)
    IN  CASE args.input.kind = "missing" -> FALSE
          [] args.input.kind = "directory" ->
                \A i \in 1..Len(args.input.xml_files) : done(args.input.xml_files[i])
          [] OTHER -> done(args.input)

(* C18: the exit code of the command line tells whether the conversion    *)
(* succeeded: a conversion run of main returns 0 when the requested       *)
(* conversion succeeded and 1 when it failed, for a single file           *)
(* (malformed XML on the HTML path included) and for a directory with a   *)
(* failing file.                                                          *)
ExitCodeTellsSuccess ==
    (last.call = "main" /\ ~last.args.analyze) =>
        /\ ~last.value.raised
        /\ last.value.code = IF Succeeded(last.args, last.env) THEN 0 ELSE 1

\* the format has no plugin, or its plugin lacks its packages
Unavailable(fmt, env) ==
    fmt \notin registered_plugins \/ ~check_dependencies(fmt, env)

\* the elements of a list
Members(list) == {list[i] : i \in 1..Len(list)}

(* C19: in convert_to_multiple_formats a format without plugin or without *)
(* its dependencies gets False and its convert is not called, and the     *)
(* other formats are not affected: the mapping has one entry per          *)
(* requested format, and each available format is converted, with the     *)
(* result it has when it is requested alone.                              *)
SkippedFormatsStayAlone ==
    last.call = "convert_to_multiple_formats" =>
        LET results == last.value.results
        IN  /\ DOMAIN results = Members(last.output_formats)
            /\ \A fmt \in Members(last.output_formats) :
                  IF Unavailable(fmt, last.env)
                  THEN ~results[fmt] /\ fmt \notin Members(last.value.called)
                  ELSE /\ fmt \in Members(last.value.called)
                       /\ results[fmt] =
                             convert_to_multiple_formats(last.file, <<fmt>>,
                                                         last.env).results[fmt]

SkippedFormatsStayAloneWitness ==
    /\ last.call = "convert_to_multiple_formats"
    /\ last.output_formats = <<"epub", "html", "pdf">>
    /\ last.file.kind = "xml"
    /\ ~check_dependencies("pdf", last.env)
    /\ last.value.results = [f \in {"epub", "html", "pdf"} |-> f = "html"]
    /\ last.value.called = <<"html">>

\* the visit counters a sequence of <<tag, id>> dispatches adds up to
Tally(dispatches) == count_visits([t \in {} |-> 0], dispatches)

(* C21: every element rendered through the registry is counted: after a  *)
(* tree was rendered from its root, the visits counted per tag are the    *)
(* elements with that tag that were handed to the processor resolved for  *)
(* them, by process_element or by process_children.                       *)
EveryDispatchIsCounted ==
    (Rendered /\ ~last.value.raised) =>
        Tally(last.value.log) = Tally(last.value.handed)

\* the targets of the links of a page: the text between href="# and the
\* closing quote of each navigation link
LinkTargets(html) ==
    LET opens == {i \in 1..Len(html) : html[i] = "<a href=\"#"}
        close(i) == CHOOSE j \in (i + 1)..Len(html) :
                        /\ html[j] = "\" class=\"nav-link\">"
                        /\ \A k \in (i + 1)..(j - 1) : html[k] # "\" class=\"nav-link\">"
    IN  {SubSeq(html, i + 1, close(i) - 1) : i \in opens}

\* the markup that opens an element with an id, the characters of the id it
\* starts, and the markup that closes the attribute
Anchors ==
    {<<"<div class=\"chapter\" id=\"chapter-", <<"c","h","a","p","t","e","r","-">>,
       "\" style=\"margin: 40px 0; border-top: 2px solid #e0e0e0; padding-top: 20px;\">">>,
     <<"<div class=\"section\" id=\"section-", <<"s","e","c","t","i","o","n","-">>,
       "\" style=\"margin: 30px 0; padding-left: 20px;\">">>,
     <<"<div class=\"article\" id=\"article-", <<"a","r","t","i","c","l","e","-">>,
       "\" style=\"margin: 30px 0; padding: 20px; background: #fafafa; border-left: 4px solid #3498db; border-radius: 4px;\">">>}

\* the page has an element whose id attribute is target
HasAnchor(html, target) ==
    \E i \in 1..Len(html), a \in Anchors :
        LET last_char == i + Len(target) - Len(a[2])
        IN  /\ html[i] = a[1]
            /\ Len(target) >= Len(a[2])
            /\ last_char < Len(html)
            /\ a[2] \o SubSeq(html, i + 1, last_char) = target
            /\ html[last_char + 1] = a[3]

(* C22: navigation links are usable: every link of the navigation block  *)
(* of a converted document, href "#kind-id", has its target in the same   *)
(* page: an element of the rendered body carries the id "kind-id".        *)
NavigationLinksResolve ==
    (Converted("xml") /\ ~last.value.raised) =>
        \A target \in LinkTargets(last.value.html) :
            HasAnchor(last.value.html, target)

\* the children of a node, and the nodes of a tree with a tag
Children(d) == {d.kids[i] : i \in 1..Len(d.kids)}
Tagged(root, t) == {d \in Nodes(root) : clean_tag(d.tag) = t}
TagsOf(S) == {clean_tag(d.tag) : d \in S}

(* C23: analyze_xml_structure visits every node once and returns the     *)
(* summary of the tree: elements are the tags of all nodes; hierarchy[p]  *)
(* are the tags of the children of the nodes tagged p, with the tags of   *)
(* the nodes that have children as keys; attributes[t] are the attribute  *)
(* names of the nodes tagged t; text_elements are the tags of the nodes   *)
(* whose own text is not blank; container_elements are the tags of the    *)
(* nodes with a child.                                                    *)
AnalysisIsTheSummary ==
    (last.call = "analyze_xml" /\ last.file.kind = "xml") =>
        LET root == Number(last.file.root, 1)
            all == Nodes(root)
            parents == {d \in all : d.kids # <<>>}
            got == last.value
        IN  /\ Len(got.visited) = Cardinality(all)
            /\ {got.visited[i] : i \in 1..Len(got.visited)} = {d.id : d \in all}
            /\ got.elements = TagsOf(all)
            /\ got.container_elements = TagsOf(parents)
            /\ DOMAIN got.hierarchy = got.container_elements
            /\ \A p \in DOMAIN got.hierarchy :
                  got.hierarchy[p] = UNION {TagsOf(Children(d)) : d \in Tagged(root, p)}
            /\ DOMAIN got.attributes = TagsOf({d \in all : d.attrib # <<>>})
            /\ \A t \in DOMAIN got.attributes :
                  got.attributes[t] =
                      UNION {{d.attrib[i][1] : i \in 1..Len(d.attrib)} : d \in Tagged(root, t)}
            /\ got.text_elements =
                  TagsOf({d \in all : d.text # <<>> /\ strip(d.text) # <<>>})

AnalysisIsTheSummaryWitness ==
    /\ last.call = "analyze_xml"
    /\ last.file = NestedFile
    /\ Len(last.value.visited) = 5
    /\ last.value.hierarchy[<<"b">>] = {<<"a">>}
    /\ last.value.attributes[<<"b">>] = {<<"y">>, <<"z">>}
    /\ last.value.text_elements = {<<"b">>, <<"c">>}

\* the TableColumn elements a TableStruct has cells for, row after row
Columns(root) ==
    IF find(root, <<"T","a","b","l","e">>) = <<>> THEN <<>>
    ELSE findall_path(find(root, <<"T","a","b","l","e">>)[1], <<"T","a","b","l","e","R","o","w">>, <<"T","a","b","l","e","C","o","l","u","m","n">>)

\* where the cells open in the markup
CellOpenings(html) ==
    SelectSeq([i \in 1..Len(html) |-> i], LAMBDA i : html[i] = "<td style=\"")

\* the attribute is there with this value
HasAttribute(col, name, value) ==
    \E i \in 1..Len(col.attrib) : col.attrib[i] = <<name, value>>

Edge(col, name) == IF HasAttribute(col, name, <<"s","o","l","i","d">>) THEN "1px solid #333" ELSE "none"

\* the span attribute of a cell: there with the value of the column's
\* attribute when that is not empty
Span(col, name, open) ==
    IF \E i \in 1..Len(col.attrib) : col.attrib[i][1] = name /\ col.attrib[i][2] # <<>>
    THEN <<open>> \o get(col, name, <<>>) \o <<"\"">>
    ELSE <<>>

\* the cell that opens at html[s] is the one of col
CellOf(html, s, col) ==
    LET spans == Span(col, <<"r","o","w","s","p","a","n">>, " rowspan=\"") \o Span(col, <<"c","o","l","s","p","a","n">>, " colspan=\"")
    IN  /\ SubSeq(html, s + 1, s + 10) =
              <<"border-top: ", Edge(col, <<"B","o","r","d","e","r","T","o","p">>),
                "; border-bottom: ", Edge(col, <<"B","o","r","d","e","r","B","o","t","t","o","m">>),
                "; border-left: ", Edge(col, <<"B","o","r","d","e","r","L","e","f","t">>),
                "; border-right: ", Edge(col, <<"B","o","r","d","e","r","R","i","g","h","t">>),
                "; padding: 8px; vertical-align: top;", "\"">>
        /\ SubSeq(html, s + 11, s + 11 + Len(spans)) = spans \o <<">">>

(* C24: the borders of a table cell: for each TableColumn of a TableStruct  *)
(* and each edge on its own, the style of the cell has "1px solid #333" on *)
(* that edge iff the Border attribute of that edge is exactly "solid", and  *)
(* "none" otherwise; rowspan and colspan are in the cell iff the column    *)
(* has them with a value that is not empty, and with that value.           *)
CellBordersFollowAttributes ==
    (Rendered /\ tree[1].tag = <<"T","a","b","l","e","S","t","r","u","c","t">> /\ ~last.value.raised) =>
        /\ Len(CellOpenings(last.value.html)) = Len(Columns(tree[1]))
        /\ \A k \in 1..Len(Columns(tree[1])) :
              CellOf(last.value.html, CellOpenings(last.value.html)[k],
                     Columns(tree[1])[k])

CellBordersFollowAttributesWitness ==
    /\ Rendered
    /\ tree[1].tag = <<"T","a","b","l","e","S","t","r","u","c","t">>
    /\ Len(Columns(tree[1])) = 1
    /\ Columns(tree[1])[1].attrib = <<<<<<"B","o","r","d","e","r","T","o","p">>, <<"s","o","l","i","d">>>>>>
    /\ contains(last.value.html,
                <<"border-top: ", "1px solid #333", "; border-bottom: ", "none",
                  "; border-left: ", "none", "; border-right: ", "none">>)

\* the table with one row for every child of element and, in it, one cell
\* for every child of that child, holding its escaped text
TableOfChildren(element) ==
    LET cell(col) == <<"<td>">> \o escape_html(get_text(<<col>>)) \o <<"</td>">>
        line(row) ==
            <<"<tr>">> \o concat([j \in 1..Len(row.kids) |-> cell(row.kids[j])])
            \o <<"</tr>">>
    IN  <<"<table class=\"table\">">>
        \o concat([i \in 1..Len(element.kids) |-> line(element.kids[i])])
        \o <<"</table>">>

(* C25: the table rule of the default processor: for an unregistered tag   *)
(* that contains Table (and none of the keywords tested before it), the    *)
(* markup is a table with exactly one row per direct child of the element  *)
(* and, in each row, one cell per child of that child with its escaped     *)
(* text, in document order, whatever the names of the children are.        *)
TableHasRowPerChild ==
    (/\ Rendered
     /\ RootUnregistered
     /\ default_rule(clean_tag(tree[1].tag)) = 4) =>
        /\ ~last.value.raised
        /\ last.value.html = TableOfChildren(tree[1])

\* the explicit table of contents of a document: <<>> or <<element>>
TocElement(root) ==
    IF findall_desc(root, <<"T","O","C">>) # <<>> THEN first(findall_desc(root, <<"T","O","C">>))
    ELSE IF findall_desc(root, <<"t","o","c">>) # <<>> THEN first(findall_desc(root, <<"t","o","c">>))
    ELSE IF findall_desc(root, <<"t","a","b","l","e","_","o","f","_","c","o","n","t","e","n","t","s">>) # <<>>
    THEN first(findall_desc(root, <<"t","a","b","l","e","_","o","f","_","c","o","n","t","e","n","t","s">>))
    ELSE first(findall_desc(root, <<"c","o","n","t","e","n","t","s">>))

\* the markup of an element rendered by the processor of its tag
MarkupOf(elem) == Invoke(get_processor(clean_tag(elem.tag)), elem, CtxProcessor).html

\* the page has slot and then content right after its header
SlotThenContent(html, slot, content) ==
    \E i \in 1..Len(html) :
        /\ html[i] = "</div></div>"
        /\ \A j \in 1..(i - 1) : html[j] # "</div></div>"
        /\ i + Len(slot) + Len(content) < Len(html)
        /\ SubSeq(html, i + 1, i + Len(slot) + Len(content)) = slot \o content
        /\ html[i + Len(slot) + Len(content) + 1] = "</div>"

\* the elements the body traversal hands to a processor
Reached(body) == {body.handed[i][2] : i \in 1..Len(body.handed)}

\* the page of root after body was rendered from the root
TocIsDoubled(html, root, body) ==
    IF TocElement(root) = <<>> THEN SlotThenContent(html, <<>>, body.html)
    ELSE /\ SlotThenContent(html, MarkupOf(TocElement(root)[1]), body.html)
         /\ TocElement(root)[1].id \in Reached(body) =>
                contains(body.html, MarkupOf(TocElement(root)[1]))

(* C26: with include_toc set, the markup of the explicit table of contents *)
(* (the first match of TOC, toc, table_of_contents, contents among the     *)
(* descendants of the root) is in the page twice when the body traversal   *)
(* reaches that element too: in the TOC slot of the template and inside    *)
(* the content rendered from the root; without such an element the slot is *)
(* empty.                                                                  *)
TocIsEmittedTwice ==
    (Converted("xml") /\ ~last.value.raised /\ config.include_toc) =>
        Let1(process_element(Number(last.file.root, 1), CtxProcessor),
             LAMBDA body : TocIsDoubled(last.value.html, Number(last.file.root, 1), body))

TocIsEmittedTwiceWitness ==
    /\ Converted("xml")
    /\ ~last.value.raised
    /\ last.file = LawFile
    /\ TocElement(Number(LawDoc, 1)) # <<>>
    /\ MarkupOf(TocElement(Number(LawDoc, 1))[1]) # <<>>
    /\ \E i, j \in 1..Len(last.value.html) :
          /\ i < j
          /\ \A k \in {i, j} :
                SubSeq(last.value.html, k,
                       k + Len(MarkupOf(TocElement(Number(LawDoc, 1))[1])) - 1)
                    = MarkupOf(TocElement(Number(LawDoc, 1))[1])

(* C27: tier 3 of the title inference yields placeholders only: when the   *)
(* title is set by Method 3 (Methods 1 and 2 found none), the text is, in  *)
(* lower case, one of title, name, heading: any other acceptable text of a *)
(* title or name element was taken by Method 1.                            *)
Tier3YieldsPlaceholders ==
    [][(pc = "method3" /\ pc' = "fallback" /\ title_text = <<>> /\ title_text' # <<>>) =>
          lower(title_text') \in placeholders]_vars

Tier3YieldsPlaceholdersWitness ==
    /\ pc = "fallback"
    /\ tree[1].tag = <<"b","o","o","k">>
    /\ method1(tree[1]) = <<>>
    /\ method2(tree[1], <<>>) = <<>>
    /\ title_text = <<"T","i","t","l","e">>

(* C28: being in the mapping convert_directory returns does not mean that  *)
(* the HTML file exists: a malformed file, for which convert_file returns  *)
(* the error page without raising and without writing, is in the mapping   *)
(* with its HTML path, and no file was written at that path; the files     *)
(* written are those of the well-formed files whose conversion returned.   *)
MalformedFilesAreListedUnwritten ==
    last.call = "convert_directory" =>
        /\ \A i \in 1..Len(last.xml_files) :
              last.xml_files[i].kind = "malformed" =>
                  /\ last.xml_files[i].name \in DOMAIN last.value.converted
                  /\ last.value.converted[last.xml_files[i].name] = HtmlPath(last.xml_files, i)
                  /\ HtmlPath(last.xml_files, i) \notin last.value.written
        /\ last.value.written =
              {HtmlPath(last.xml_files, i) : i \in
                  {j \in 1..Len(last.xml_files) :
                      /\ last.xml_files[j].kind = "xml"
                      /\ last.xml_files[j].name \in DOMAIN last.value.converted}}

MalformedFilesAreListedUnwrittenWitness ==
    /\ last.call = "convert_directory"
    /\ last.xml_files = <<BadFile, BoxFile>>
    /\ DOMAIN last.value.converted = {<<"c",".","x","m","l">>, <<"a",".","x","m","l">>}
    /\ last.value.converted[<<"c",".","x","m","l">>] = <<"h","t","m","l","/","c",".","h","t","m","l">>
    /\ last.value.written = {<<"h","t","m","l","/","a",".","h","t","m","l">>}

\* a PDF library can be imported
PdfLibrary(env) == "weasyprint" \in env.installed \/ "pdfkit" \in env.installed

(* C29: the temporary HTML file of PDFPlugin.convert: the file made once   *)
(* the dependencies are available is removed when the HTML-to-PDF step     *)
(* succeeds and when convert_file raises; when the step returns failure    *)
(* without raising, convert returns False and the file is still there.     *)
PdfTempFileIsLeftOnFailure ==
    (last.call = "plugin_convert" /\ last.plugin = "pdf") =>
        /\ last.value.temp_left <=>
              /\ PdfLibrary(last.env)
              /\ last.file.kind # "unreadable"
              /\ ~last.env.pdf_written
        /\ last.value.temp_left => ~last.value.success
        /\ last.value.success <=>
              /\ PdfLibrary(last.env)
              /\ last.file.kind # "unreadable"
              /\ last.env.pdf_written

PdfTempFileIsLeftOnFailureWitness ==
    /\ last.call = "plugin_convert"
    /\ last.plugin = "pdf"
    /\ last.file = BoxFile
    /\ last.env = WithPdfkit
    /\ last.value = Converted_by(FALSE, FALSE, TRUE)

\* the calls before the k-th that register the name of the k-th call
RegistersBefore(h, k) ==
    {j \in 1..(k - 1) : h[j].call = "register" /\ h[j].name = h[k].name}

\* the get_plugin calls up to the k-th for the name of the k-th call
GetsUpTo(h, k) ==
    {j \in 1..k : h[j].call = "get_plugin" /\ h[j].name = h[k].name}

Greatest(S) == CHOOSE j \in S : \A i \in S : i <= j

\* the k-th call returned None iff its name was never registered before it
NoneIffUnregistered(h, k) ==
    h[k].returned = <<>> <=> RegistersBefore(h, k) = {}

\* the first get_plugin call for the name of the k-th call made when the
\* name was registered
FirstServed(h, k) == Least({j \in GetsUpTo(h, k) : RegistersBefore(h, j) # {}})

(* C30: one instance per plugin name: in every sequence of register and    *)
(* get_plugin calls on a registry, a get_plugin call returns None iff the  *)
(* name was not registered before it, and otherwise the instance made by   *)
(* the first get_plugin call for that name that found it registered: of    *)
(* the class registered last before that call and with the config of that  *)
(* call, whatever later calls register or pass as config.                  *)
OneInstancePerName ==
    OnRegistry =>
        \A k \in 1..Len(last.history) :
            last.history[k].call = "get_plugin" =>
                /\ NoneIffUnregistered(last.history, k)
                /\ RegistersBefore(last.history, k) # {} =>
                      LET served == FirstServed(last.history, k)
                      IN  last.history[k].returned[1] =
                              OutputPlugin(
                                  last.history[Greatest(RegistersBefore(last.history, served))].plugin_class,
                                  last.history[served].config, served)

\* C30 as stated: the instance is the one of the first get_plugin call for
\* the name, with the config of that call
InstanceOfFirstGet ==
    OnRegistry =>
        \A k \in 1..Len(last.history) :
            last.history[k].call = "get_plugin" =>
                /\ NoneIffUnregistered(last.history, k)
                /\ RegistersBefore(last.history, k) # {} =>
                      /\ last.history[k].returned[1].made_by = Least(GetsUpTo(last.history, k))
                      /\ last.history[k].returned[1].config =
                            OutputPlugin("HTMLPlugin",
                                         last.history[Least(GetsUpTo(last.history, k))].config,
                                         0).config

OneInstancePerNameWitness ==
    /\ OnRegistry
    /\ Len(last.history) = 4
    /\ \A k \in 1..4 : last.history[k].name = "pdf"
    /\ last.history[1] = [call |-> "register", name |-> "pdf", plugin_class |-> "HTMLPlugin"]
    /\ last.history[2].call = "get_plugin" /\ last.history[2].config = "None"
    /\ last.history[3] = [call |-> "register", name |-> "pdf", plugin_class |-> "PDFPlugin"]
    /\ last.history[4].call = "get_plugin" /\ last.history[4].config = "a"
    /\ last.history[4].returned = <<OutputPlugin("HTMLPlugin", "None", 2)>>
    /\ last.registry._plugins["pdf"] = "PDFPlugin"
=============================================================================
